---- MODULE Spec2Model ----
(***************************************************************************)
(* Model of the response-parsing and key-grouping core of leitor-nf-pdf.   *)
(*                                                                         *)
(* JavaScript strings are modelled as sequences of one-character strings,  *)
(* so that split, trim, replace and the regular expressions of the source  *)
(* are computed character by character, as the code computes them.         *)
(***************************************************************************)
EXTENDS Integers, Sequences, FiniteSets, TLC

VARIABLES
    csvString,      \* parseCsvRecords: the text argument
    filename,       \* parseCsvRecords: the provenance argument
    pc,             \* parseCsvRecords: "call" before the call, "done" after it
    separator,      \* parseCsvRecords: local `separator` at return
    headers,        \* parseCsvRecords: local `headers` at return
    records,        \* parseCsvRecords: the returned array
    keys,           \* groupKeys: the argument
    revision,       \* groupKeys: which revision of the function is called
    kpc,            \* groupKeys: "call", "once" (called), "twice" (called on its own result)
    groupedKeys,    \* groupKeys: the returned array
    regroupedKeys,  \* groupKeys: the array returned for groupedKeys
    allExtractedData,   \* createExcelFile: the documents, each as Object.keys(data)
    selectedFieldsMap,  \* createExcelFile (leitor.js:398): selection of each document
    selectedKeys,       \* createExcelFile (part_003:135): the selection
    excelRevision,      \* createExcelFile: which revision of the function is called
    xpc,                \* createExcelFile: "call" before the call, "done" after it
    verticalRows,       \* createExcelFile: the field names of the rows of each worksheet
    worksheetNames,     \* createExcelFile: the names passed to workbook.addWorksheet
    dataList,           \* aggregatePointData: the argument
    apc,                \* aggregatePointData: "call" before the call, "done" after it
    monthlySummary,     \* aggregatePointData: the returned object
    maxRetries,         \* callApiWithRetry: the argument
    attempt,            \* callApiWithRetry: the loop variable
    rpc,                \* callApiWithRetry: "loop", "awaiting" (apiCall pending),
                        \*   "waiting" (backoff timer pending), "returned", "thrown"
    apiCalls,           \* callApiWithRetry: invocations of apiCall by this call
    inFlight,           \* invocations of apiCall that have not settled yet
    outcome,            \* callApiWithRetry: what it returned or threw
    response,           \* callApiWithRetry: the text of the value returned
    reqFiles,           \* /upload: req.files
    upc,                \* /upload: position of the handler
    fileIndex,          \* /upload: position of the for loop in req.files
    allResultsForClient,\* /upload: the local array
    allResultsForExcel, \* /upload: the local array
    fieldLists,         \* /upload: the local array
    allDetailedKeys,    \* /upload: the local Set, in insertion order
    unlinked,           \* /upload: files whose fs.promises.unlink was requested
    now,                \* Date.now()
    sessionData,        \* the module-level object sessionData
    httpStatus,         \* /upload: status of the response sent, 0 before it
    serverRevision,     \* which revision of the server is running
    uploadRequests,     \* the requests to POST /upload, each with its locals
    downloadRequests,   \* the requests to the download route
    sessionObjects,     \* the session objects created, by the upload that made them
    statusReply         \* the last answer of GET /status/:sessionId

csvVars == <<csvString, filename, pc, separator, headers, records>>

keyVars == <<keys, revision, kpc, groupedKeys, regroupedKeys>>

excelVars == <<allExtractedData, selectedFieldsMap, selectedKeys, excelRevision,
               xpc, verticalRows, worksheetNames>>

vars == <<csvString, filename, pc, separator, headers, records,
          keys, revision, kpc, groupedKeys, regroupedKeys,
          allExtractedData, selectedFieldsMap, selectedKeys, excelRevision,
          xpc, verticalRows, worksheetNames,
          dataList, apc, monthlySummary,
          maxRetries, attempt, rpc, apiCalls, inFlight, outcome, response,
          reqFiles, upc, fileIndex, allResultsForClient, allResultsForExcel,
          fieldLists, allDetailedKeys, unlinked, now, sessionData, httpStatus,
          serverRevision, uploadRequests, downloadRequests, sessionObjects,
          statusReply>>

retryVars == <<maxRetries, attempt, rpc, apiCalls, inFlight, outcome, response>>

uploadVars == <<reqFiles, upc, fileIndex, allResultsForClient, allResultsForExcel,
                fieldLists, allDetailedKeys, unlinked, now, sessionData, httpStatus>>

\* the locals of the single upload of SpecUpload
uploadLocals == <<reqFiles, upc, fileIndex, allResultsForClient, allResultsForExcel,
                  fieldLists, allDetailedKeys, unlinked, httpStatus>>

\* concurrent requests against the session store
requestVars == <<serverRevision, uploadRequests, downloadRequests, sessionObjects,
                 statusReply>>

serverVars == <<retryVars, uploadVars, requestVars>>

aggregateVars == <<dataList, apc, monthlySummary>>

\* the variables of the other functions, which a call leaves alone
allButCsv == <<keyVars, excelVars, aggregateVars, serverVars>>

allButKeys == <<csvVars, excelVars, aggregateVars, serverVars>>

allButExcel == <<csvVars, keyVars, aggregateVars, serverVars>>

allButAggregate == <<csvVars, keyVars, excelVars, serverVars>>

allButServer == <<csvVars, keyVars, excelVars, aggregateVars, requestVars>>

allButRequests == <<csvVars, keyVars, excelVars, aggregateVars, retryVars,
                    uploadLocals>>

----------------------------------------------------------------------------
(* Bounds *)

MaxRows == 2        \* data lines after the header line in a structured text

MaxHdrLen == 4      \* characters of an exhaustively enumerated header line

MaxKeys == 2        \* field names in a structured key list

MaxKeyLen == 4      \* characters of an exhaustively enumerated field name

MaxDocs == 2        \* documents handed to createExcelFile

MaxRecords == 2     \* records handed to aggregatePointData

MaxRetries == 5     \* the largest maxRetries callApiWithRetry is called with on its own

MaxFiles == 2       \* files of one upload

MaxSheets == 3      \* documents whose worksheets createExcelFile names

MaxBatch == 2       \* files of one of the concurrent uploads

MaxTime == 2        \* milliseconds the clock advances while they run

----------------------------------------------------------------------------
(* Characters and the JavaScript string primitives the source uses *)

DigitSeq == <<"0", "1", "2", "3", "4", "5", "6", "7", "8", "9">>

LowerSeq == <<"a", "b", "c", "d", "e", "f", "g", "h", "i", "j", "k", "l", "m",
              "n", "o", "p", "q", "r", "s", "t", "u", "v", "w", "x", "y", "z">>

UpperSeq == <<"A", "B", "C", "D", "E", "F", "G", "H", "I", "J", "K", "L", "M",
              "N", "O", "P", "Q", "R", "S", "T", "U", "V", "W", "X", "Y", "Z">>

Digits == {DigitSeq[i] : i \in 1..10}

Lower == {LowerSeq[i] : i \in 1..26}

Upper == {UpperSeq[i] : i \in 1..26}

\* UTF-16 code units of the characters the model uses, for String comparison
CodeUnit ==
    [c \in Digits \cup Lower \cup Upper \cup
           {"\n", " ", "!", "(", ")", ",", "-", ".", "/", ":", ";", "_"} |->
        CASE c = "\n" -> 10
          [] c = " " -> 32
          [] c = "!" -> 33
          [] c = "(" -> 40
          [] c = ")" -> 41
          [] c = "," -> 44
          [] c = "-" -> 45
          [] c = "." -> 46
          [] c = "/" -> 47
          [] c \in Digits -> 47 + (CHOOSE i \in 1..10 : DigitSeq[i] = c)
          [] c = ":" -> 58
          [] c = ";" -> 59
          [] c \in Upper -> 64 + (CHOOSE i \in 1..26 : UpperSeq[i] = c)
          [] c = "_" -> 95
          [] c \in Lower -> 96 + (CHOOSE i \in 1..26 : LowerSeq[i] = c)]

\* \d
IsDigit(c) == c \in Digits

\* \w
IsWordChar(c) == c \in Lower \cup Upper \cup Digits \cup {"_"}

\* [a-z] under the i flag
IsLetter(c) == c \in Lower \cup Upper

\* \s
IsSpace(c) == c \in {" ", "\t", "\n", "\r"}

\* [a-z0-9_], the characters /[^a-z0-9_]/g leaves in place
IsKeyChar(c) == c \in Lower \cup Digits \cup {"_"}

\* \d* and \w* over a whole string
AllDigits(s) == \A i \in 1..Len(s) : IsDigit(s[i])

AllWordChars(s) == \A i \in 1..Len(s) : IsWordChar(s[i])

RECURSIVE trimStart(_)
trimStart(s) ==
    IF s # <<>> /\ IsSpace(Head(s)) THEN trimStart(Tail(s)) ELSE s

RECURSIVE trimEnd(_)
trimEnd(s) ==
    IF s # <<>> /\ IsSpace(s[Len(s)]) THEN trimEnd(SubSeq(s, 1, Len(s) - 1)) ELSE s

\* String.prototype.trim
trim(s) == trimEnd(trimStart(s))

\* String.prototype.toLowerCase, on the ASCII letters
toLowerCase(s) ==
    [i \in 1..Len(s) |->
        IF s[i] \in Upper
        THEN LowerSeq[CHOOSE k \in 1..26 : UpperSeq[k] = s[i]]
        ELSE s[i]]

\* String.prototype.indexOf with a one-character string, counted from 1; 0 when absent
indexOf(s, c) ==
    IF \E i \in 1..Len(s) : s[i] = c
    THEN CHOOSE k \in 1..Len(s) : s[k] = c /\ \A j \in 1..(k - 1) : s[j] # c
    ELSE 0

\* String.prototype.split with a one-character separator
RECURSIVE split(_, _)
split(s, sep) ==
    IF indexOf(s, sep) = 0 THEN <<s>>
    ELSE <<SubSeq(s, 1, indexOf(s, sep) - 1)>>
         \o split(SubSeq(s, indexOf(s, sep) + 1, Len(s)), sep)

\* String.prototype.includes
includes(s, sub) ==
    \E i \in 0..(Len(s) - Len(sub)) : SubSeq(s, i + 1, i + Len(sub)) = sub

\* String.prototype.replace(from, to) with one-character strings: first occurrence only
replaceFirst(s, from, to) ==
    [k \in 1..Len(s) |-> IF k = indexOf(s, from) THEN to ELSE s[k]]

\* a < b as JavaScript compares strings: by code units, a proper prefix first
RECURSIVE StrLess(_, _)
StrLess(a, b) ==
    IF b = <<>> THEN FALSE
    ELSE IF a = <<>> THEN TRUE
    ELSE IF a[1] # b[1] THEN CodeUnit[a[1]] < CodeUnit[b[1]]
    ELSE StrLess(Tail(a), Tail(b))

----------------------------------------------------------------------------
(* JavaScript values of a record: strings and numbers.                     *)
(* A number is the exact fraction num/den.                                 *)

Str(s) == [t |-> "string", s |-> s, num |-> 0, den |-> 1]

RECURSIVE Gcd(_, _)
Gcd(a, b) == IF b = 0 THEN a ELSE Gcd(b, a % b)

Abs(n) == IF n < 0 THEN -n ELSE n

Fraction(n, d, g) ==
    [t |-> "number", s |-> <<>>, num |-> n \div g, den |-> d \div g]

\* the number n/d, in lowest terms so that equal numbers are equal values
Num(n, d) == Fraction(n, d, Gcd(Abs(n), d))

NaN == [t |-> "NaN", s |-> <<>>, num |-> 0, den |-> 1]

\* Boolean(v)
truthy(v) ==
    \/ v.t = "string" /\ v.s # <<>>
    \/ v.t = "number" /\ v.num # 0

RECURSIVE DigitPrefixLen(_)
DigitPrefixLen(s) ==
    IF s # <<>> /\ IsDigit(Head(s)) THEN 1 + DigitPrefixLen(Tail(s)) ELSE 0

DigitPrefix(s) == SubSeq(s, 1, DigitPrefixLen(s))

RECURSIVE DigitsValue(_)
DigitsValue(s) ==
    IF s = <<>> THEN 0
    ELSE DigitsValue(SubSeq(s, 1, Len(s) - 1)) * 10
         + (CHOOSE i \in 1..10 : DigitSeq[i] = s[Len(s)]) - 1

RECURSIVE Pow10(_)
Pow10(k) == IF k = 0 THEN 1 ELSE 10 * Pow10(k - 1)

\* the sign a numeric literal starts with, and the literal without it
SignOf(s) == IF s # <<>> /\ Head(s) = "-" THEN -1 ELSE 1

Unsigned(s) == IF s # <<>> /\ Head(s) \in {"-", "+"} THEN Tail(s) ELSE s

IntegerOf(sign, digits) ==
    IF digits = <<>> THEN NaN ELSE Num(sign * DigitsValue(digits), 1)

\* parseInt(str, 10): optional sign, then the longest prefix of digits
parseInt(str) ==
    IntegerOf(SignOf(trimStart(str)), DigitPrefix(Unsigned(trimStart(str))))

\* the digits after a "." that follows the integer digits
FractionDigits(rest) ==
    IF rest # <<>> /\ Head(rest) = "." THEN DigitPrefix(Tail(rest)) ELSE <<>>

DecimalOf(sign, int, frac) ==
    IF Len(int) + Len(frac) = 0 THEN NaN
    ELSE Num(sign * (DigitsValue(int) * Pow10(Len(frac)) + DigitsValue(frac)),
             Pow10(Len(frac)))

DecimalOfBody(sign, body) ==
    DecimalOf(sign, DigitPrefix(body),
              FractionDigits(SubSeq(body, DigitPrefixLen(body) + 1, Len(body))))

\* parseFloat(str): optional sign, digits, optional "." and digits
\* (the texts of the model hold no exponent and no "Infinity")
parseFloat(str) == DecimalOfBody(SignOf(trimStart(str)), Unsigned(trimStart(str)))

\* obj[k] = v on an object modelled as a function from its keys
put(obj, k, v) ==
    [x \in (DOMAIN obj) \cup {k} |-> IF x = k THEN v ELSE obj[x]]

----------------------------------------------------------------------------
(* String literals of the source *)

sNA == <<"N", "/", "A">>

sDesconhecido == <<"D", "e", "s", "c", "o", "n", "h", "e", "c", "i", "d", "o">>

sArquivoOriginal ==
    <<"a", "r", "q", "u", "i", "v", "o", "_", "o", "r", "i", "g", "i", "n", "a", "l">>

sArquivo == <<"a", "r", "q", "u", "i", "v", "o">>

sNomeColaborador ==
    <<"n", "o", "m", "e", "_", "c", "o", "l", "a", "b", "o", "r", "a", "d", "o", "r">>

sDataRegistro ==
    <<"d", "a", "t", "a", "_", "r", "e", "g", "i", "s", "t", "r", "o">>

sHoras == <<"h", "o", "r", "a", "s">>

sTotal == <<"t", "o", "t", "a", "l">>

sResumoExecutivo ==
    <<"r", "e", "s", "u", "m", "o", "_", "e", "x", "e", "c", "u", "t", "i", "v", "o">>

sResumoExecutivoMensal == sResumoExecutivo \o <<"_", "m", "e", "n", "s", "a", "l">>

----------------------------------------------------------------------------
(* parseCsvRecords, src/leitor.js:769-864 *)

NonBlank(line) == Len(trim(line)) > 0

separatorCandidates == <<";", ",">>

\* the comparison `count > maxCount` of the detection loop
countBeatsGe(count, maxCount) == count >= maxCount

countBeats(count, maxCount) == count > maxCount

\* lines 783-787, for count = headerLine.split(sep).length
\* st = [maxCount, bestSeparator]
separatorStep(st, sep, count) ==
    IF countBeats(count, st.maxCount)
    THEN [maxCount |-> count, bestSeparator |-> sep]
    ELSE st

\* the for loop over separatorCandidates
RECURSIVE separatorLoop(_, _, _)
separatorLoop(headerLine, i, st) ==
    IF i > Len(separatorCandidates) THEN st
    ELSE separatorLoop(headerLine, i + 1,
             separatorStep(st, separatorCandidates[i],
                           Len(split(headerLine, separatorCandidates[i]))))

\* line 789
chosenSeparator(st) == IF st.maxCount > 1 THEN st.bestSeparator ELSE ","

detectSeparator(headerLine) ==
    chosenSeparator(separatorLoop(headerLine, 1, [maxCount |-> 0, bestSeparator |-> ","]))

\* .replace(/\s+/g, '_')
RECURSIVE replaceSpaceRuns(_)
replaceSpaceRuns(s) ==
    IF s = <<>> THEN <<>>
    ELSE IF IsSpace(Head(s)) THEN <<"_">> \o replaceSpaceRuns(trimStart(Tail(s)))
    ELSE <<Head(s)>> \o replaceSpaceRuns(Tail(s))

\* .replace(/[^a-z0-9_]/g, '')
stripNonKeyCharsNone(s) == s

stripNonKeyChars(s) == SelectSeq(s, IsKeyChar)

\* .replace(/_+/g, '_')
RECURSIVE collapseUnderscores(_)
collapseUnderscores(s) ==
    IF Len(s) < 2 THEN s
    ELSE IF s[1] = "_" /\ s[2] = "_" THEN collapseUnderscores(Tail(s))
    ELSE <<s[1]>> \o collapseUnderscores(Tail(s))

\* the callback of rawHeaders.map
normalizeHeader(h) ==
    collapseUnderscores(stripNonKeyChars(replaceSpaceRuns(toLowerCase(trim(h)))))

NonEmpty(h) == Len(h) > 0

normalizeAll(rawHeaders) ==
    [i \in 1..Len(rawHeaders) |-> normalizeHeader(rawHeaders[i])]

cleanHeaders(headerLine, sep) ==
    SelectSeq(normalizeAll(split(headerLine, sep)), NonEmpty)

\* line 830 under the test of line 828
hoursOf(value, hours, minutes) ==
    IF hours # NaN /\ minutes # NaN
    THEN Num(hours.num * 60 + minutes.num, 60)
    ELSE Str(value)

\* lines 827-833
hoursOfParts(value, parts) ==
    IF Len(parts) = 2
    THEN hoursOf(value, parseInt(trim(parts[1])), parseInt(trim(parts[2])))
    ELSE Str(value)

\* line 837
numberOr(value, numValue) == IF numValue = NaN THEN Str(value) ELSE numValue

\* lines 825-838: HH:MM to decimal hours, and numeric coercion of hour/total fields
convertValue(header, value) ==
    IF includes(header, sHoras) /\ includes(value, <<":">>)
    THEN hoursOfParts(value, split(value, ":"))
    ELSE IF includes(header, sHoras) \/ includes(header, sTotal)
    THEN numberOr(value, parseFloat(replaceFirst(value, ",", ".")))
    ELSE Str(value)

\* the test that lets a cell update nomeColaboradorGlobal (line 847)
isIdentityValue(header, value) ==
    includes(header, sNomeColaborador) /\ value.t = "string" /\ Len(value.s) > 3

\* lines 840-849, for the converted value of the cell
\* st = [record, foundValidData, nomeColaboradorGlobal]
storeValue(st, header, value) ==
    [record |-> put(st.record, header,
                    IF value = Str(<<>>) THEN Str(sNA) ELSE value),
     foundValidData |->
         \/ st.foundValidData
         \/ value # Str(<<>>) /\ value # Str(sNA) /\ ~includes(header, sArquivo),
     nomeColaboradorGlobal |->
         IF isIdentityValue(header, value)
         THEN value.s ELSE st.nomeColaboradorGlobal]

\* one call of the headers.forEach callback (lines 821-851)
headerStep(st, header, values, index) ==
    IF NonEmpty(header) /\ index <= Len(values)
    THEN storeValue(st, header, convertValue(header, trim(values[index])))
    ELSE st

RECURSIVE forEachHeader(_, _, _, _)
forEachHeader(st, hdrs, values, index) ==
    IF index > Len(hdrs) THEN st
    ELSE forEachHeader(headerStep(st, hdrs[index], values, index),
                       hdrs, values, index + 1)

\* the test of line 854
lacksIdentity(record) ==
    \/ sNomeColaborador \notin DOMAIN record
    \/ ~truthy(record[sNomeColaborador])
    \/ record[sNomeColaborador] = Str(sNA)
    \/ record[sNomeColaborador].t = "string" /\ Len(record[sNomeColaborador].s) < 3

\* lines 854-856
fillIdentity(st) ==
    [record |-> IF lacksIdentity(st.record)
                THEN put(st.record, sNomeColaborador, Str(st.nomeColaboradorGlobal))
                ELSE st.record,
     foundValidData |-> st.foundValidData,
     nomeColaboradorGlobal |-> st.nomeColaboradorGlobal]

\* the record a data line builds (lines 818-856), with the identity it leaves behind
buildRecord(values, hdrs, file, nomeGlobal) ==
    fillIdentity(forEachHeader([record |-> [k \in {sArquivoOriginal} |-> Str(file)],
                                foundValidData |-> FALSE,
                                nomeColaboradorGlobal |-> nomeGlobal],
                               hdrs, values, 1))

\* the test of line 858
isPushed(row) ==
    row.foundValidData /\ row.record[sNomeColaborador] # Str(sDesconhecido)

\* lines 858-860; acc = [records, nomeColaboradorGlobal]
pushRow(acc, row) ==
    [records |-> IF isPushed(row) THEN Append(acc.records, row.record) ELSE acc.records,
     nomeColaboradorGlobal |-> row.nomeColaboradorGlobal]

\* the iteration without the test of line 814
rowStepUnchecked(values, hdrs, file, acc) ==
    pushRow(acc, buildRecord(values, hdrs, file, acc.nomeColaboradorGlobal))

\* one iteration of the for loop over the data lines (811-860)
rowStep(values, hdrs, file, acc) ==
    IF Len(values) < Len(hdrs) THEN acc
    ELSE pushRow(acc, buildRecord(values, hdrs, file, acc.nomeColaboradorGlobal))

\* the for loop over the data lines (810-861)
RECURSIVE rowLoop(_, _, _, _, _, _)
rowLoop(lines, i, sep, hdrs, file, acc) ==
    IF i > Len(lines) THEN acc
    ELSE rowLoop(lines, i + 1, sep, hdrs, file,
                 rowStep(split(lines[i], sep), hdrs, file, acc))

\* the filter of line 863
keptByFinalFilter(r) ==
    \/ sDataRegistro \in DOMAIN r /\ truthy(r[sDataRegistro])
    \/ r[sNomeColaborador] # Str(sDesconhecido)

\* lines 801-863, for the cleaned headers
parseRows(lines, sep, hdrs, file) ==
    IF Len(hdrs) < 3
    THEN [separator |-> sep, headers |-> hdrs, records |-> <<>>]
    ELSE [separator |-> sep, headers |-> hdrs,
          records |->
              SelectSeq(rowLoop(lines, 2, sep, hdrs, file,
                            [records |-> <<>>,
                             nomeColaboradorGlobal |-> sDesconhecido]).records,
                        keptByFinalFilter)]

\* lines 791-863, for the detected separator
parseWithSeparator(lines, sep, file) ==
    parseRows(lines, sep, cleanHeaders(lines[1], sep), file)

\* lines 771-863, for the non-blank lines
parseLines(lines, file) ==
    IF Len(lines) < 2
    THEN [separator |-> "", headers |-> <<>>, records |-> <<>>]
    ELSE parseWithSeparator(lines, detectSeparator(lines[1]), file)

\* the function; the result carries the locals separator and headers with the array
parseCsvRecords(text, file) ==
    parseLines(SelectSeq(split(trim(text), "\n"), NonBlank), file)

----------------------------------------------------------------------------
(* groupKeys: src/unnamed/part_003:92-127, src/leitor.js:352-389 and       *)
(* src/leitor.js:870-892.  Every alternative of the three regular          *)
(* expressions ends in $, so a match at position p is the whole suffix     *)
(* from p, and the match the engine reports is the leftmost such p.        *)

\* \d+$
matchDigits(t) == Len(t) >= 1 /\ AllDigits(t)

\* _\d+$
matchUnderscoreDigits(t) == Len(t) >= 2 /\ t[1] = "_" /\ matchDigits(Tail(t))

\* _[a-z]$ under the i flag
matchUnderscoreLetters(t) ==
    Len(t) >= 2 /\ t[1] = "_" /\ \A i \in 2..Len(t) : IsLetter(t[i])

matchAnyLetter(t) == Len(t) = 1 /\ IsLetter(t[1])

matchUnderscoreLetter(t) == Len(t) = 2 /\ t[1] = "_" /\ IsLetter(t[2])

\* \w+_\d+$
matchWordDigits(t) ==
    \E i \in 1..(Len(t) - 2) :
        /\ AllWordChars(SubSeq(t, 1, i))
        /\ matchUnderscoreDigits(SubSeq(t, i + 1, Len(t)))

\* \w+_\w+_\d+$
matchWordWordDigits(t) ==
    \E i \in 1..(Len(t) - 4) :
        /\ AllWordChars(SubSeq(t, 1, i))
        /\ t[i + 1] = "_"
        /\ matchWordDigits(SubSeq(t, i + 2, Len(t)))

\* /(_\d+$)|(_[a-z]$)|(\d+$)/i, part_003:97
regexV1(t) ==
    matchUnderscoreDigits(t) \/ matchUnderscoreLetter(t) \/ matchDigits(t)

\* /(\w+_\w+_\d+$)|(\w+_\d+$)|(_\d+$)|(_[a-z]$)|(\d+$)/i, leitor.js:361
regexV2(t) ==
    \/ matchWordWordDigits(t) \/ matchWordDigits(t)
    \/ matchUnderscoreDigits(t) \/ matchUnderscoreLetter(t) \/ matchDigits(t)

\* /(\w+_\d+$)|(_\d+$)/i, leitor.js:872
regexV3(t) == matchWordDigits(t) \/ matchUnderscoreDigits(t)

Revisions == {"part_003:92", "leitor.js:352", "leitor.js:870"}

\* the suffix t is a match of the revision's regex
regexTest(rev, t) ==
    CASE rev = "part_003:92"   -> regexV1(t)
      [] rev = "leitor.js:352" -> regexV2(t)
      [] rev = "leitor.js:870" -> regexV3(t)

\* index of the match, 0 when key.match(regex) is null
matchIndex(rev, s) ==
    IF \E p \in 1..Len(s) : regexTest(rev, SubSeq(s, p, Len(s)))
    THEN CHOOSE p \in 1..Len(s) :
             /\ regexTest(rev, SubSeq(s, p, Len(s)))
             /\ \A q \in 1..(p - 1) : ~regexTest(rev, SubSeq(s, q, Len(s)))
    ELSE 0

\* key.replace(regex, '')
replaceRegex(rev, s) ==
    IF matchIndex(rev, s) = 0 THEN s ELSE SubSeq(s, 1, matchIndex(rev, s) - 1)

\* .replace(/_$/, '')
stripTrailingUnderscore(s) ==
    IF s # <<>> /\ s[Len(s)] = "_" THEN SubSeq(s, 1, Len(s) - 1) ELSE s

\* Set.prototype.add on a Set kept in insertion order
setAdd(set, x) ==
    IF \E i \in 1..Len(set) : set[i] = x THEN set ELSE Append(set, x)

RECURSIVE insertSorted(_, _)
insertSorted(sorted, x) ==
    IF sorted = <<>> THEN <<x>>
    ELSE IF StrLess(x, sorted[1]) THEN <<x>> \o sorted
    ELSE <<sorted[1]>> \o insertSorted(Tail(sorted), x)

\* Array.prototype.sort without a comparator, on an array of distinct strings
RECURSIVE sort(_)
sort(seq) ==
    IF seq = <<>> THEN <<>>
    ELSE insertSorted(sort(SubSeq(seq, 1, Len(seq) - 1)), seq[Len(seq)])

\* the forEach callbacks: the name a key adds to the Set
groupedNameV1(key) ==
    IF key = sArquivoOriginal THEN key
    ELSE IF matchIndex("part_003:92", key) # 0
    THEN LET groupedKey == replaceRegex("part_003:92", key)
         IN  IF groupedKey # <<>> THEN groupedKey ELSE key
    ELSE key

groupedNameV2(key) ==
    IF key = sArquivoOriginal \/ key = sResumoExecutivo THEN key
    ELSE IF matchIndex("leitor.js:352", key) # 0
    THEN LET groupedKey == stripTrailingUnderscore(replaceRegex("leitor.js:352", key))
         IN  IF groupedKey # <<>> THEN groupedKey ELSE key
    ELSE key

groupedNameV3(key) ==
    IF key = sArquivoOriginal \/ key = sResumoExecutivoMensal THEN key
    ELSE IF matchIndex("leitor.js:870", key) # 0
    THEN LET groupedKey == stripTrailingUnderscore(replaceRegex("leitor.js:870", key))
         IN  IF groupedKey # <<>> THEN groupedKey ELSE key
    ELSE key

groupedName(rev, key) ==
    CASE rev = "part_003:92"   -> groupedNameV1(key)
      [] rev = "leitor.js:352" -> groupedNameV2(key)
      [] rev = "leitor.js:870" -> groupedNameV3(key)

\* keys.forEach over a Set kept in insertion order
RECURSIVE forEachKey(_, _, _, _)
forEachKey(ks, i, set, rev) ==
    IF i > Len(ks) THEN set
    ELSE forEachKey(ks, i + 1, setAdd(set, groupedName(rev, ks[i])), rev)

\* part_003:92-127 returns Array.from(groupedKeys)
groupKeysV1(ks) == forEachKey(ks, 1, <<>>, "part_003:92")

\* leitor.js:352-389 returns Array.from(groupedKeys).sort()
groupKeysV2(ks) == sort(forEachKey(ks, 1, <<>>, "leitor.js:352"))

\* leitor.js:870-892 returns Array.from(groupedKeys).sort()
groupKeysV3(ks) == sort(forEachKey(ks, 1, <<>>, "leitor.js:870"))

groupKeys(rev, ks) ==
    CASE rev = "part_003:92"   -> groupKeysV1(ks)
      [] rev = "leitor.js:352" -> groupKeysV2(ks)
      [] rev = "leitor.js:870" -> groupKeysV3(ks)

----------------------------------------------------------------------------
(* createExcelFile: the filter of the exported rows, src/leitor.js:398-472  *)
(* and src/unnamed/part_003:135-207.  A document is the record              *)
(* [arquivo_original, keys], keys being Object.keys(data) in order.         *)

ExcelRevisions == {"leitor.js:398", "part_003:135"}

\* the regex literal of each revision (leitor.js:405, part_003:144) is the one
\* of the groupKeys of the same revision
excelRegex(xrev) ==
    IF xrev = "leitor.js:398" THEN "leitor.js:352" ELSE "part_003:92"

\* leitor.js:433 and part_003:162
baseName(xrev, detailedKey) ==
    IF xrev = "leitor.js:398"
    THEN stripTrailingUnderscore(replaceRegex("leitor.js:352", detailedKey))
    ELSE replaceRegex("part_003:92", detailedKey)

\* the test of leitor.js:427 and part_003:154
addedDirectly(xrev, groupKey) ==
    \/ groupKey = sArquivoOriginal
    \/ groupKey = sResumoExecutivo
    \/ matchIndex(excelRegex(xrev), groupKey) = 0

\* Object.keys(data).forEach of leitor.js:432-440 and part_003:161-169
membersOf(xrev, dataKeys, groupKey) ==
    { dataKeys[i] : i \in { j \in 1..Len(dataKeys) :
          baseName(xrev, dataKeys[j]) = groupKey \/ dataKeys[j] = groupKey } }

\* one iteration of the loop over the selected names, over the documents docs
expandGroup(xrev, docs, groupKey) ==
    (IF addedDirectly(xrev, groupKey) THEN {groupKey} ELSE {})
        \cup UNION { membersOf(xrev, docs[i].keys, groupKey) : i \in 1..Len(docs) }

\* selectedFieldsMap[filename] || []
selectionOf(map, file) == IF file \in DOMAIN map THEN map[file] ELSE <<>>

\* leitor.js:414-442: the Set built for one document
detailedKeysToIncludeV2(data, selected) ==
    IF Len(selected) = 0
    THEN {sArquivoOriginal, sResumoExecutivo}
    ELSE UNION { expandGroup("leitor.js:398", <<data>>, selected[j]) :
                     j \in 1..Len(selected) }

\* part_003:143-171: the Set built once for all documents
detailedKeysToIncludeV1(all, selected) ==
    IF Len(selected) = 0
    THEN UNION { { all[i].keys[j] : j \in 1..Len(all[i].keys) } : i \in 1..Len(all) }
    ELSE UNION { expandGroup("part_003:135", all, selected[j]) :
                     j \in 1..Len(selected) }

\* Object.entries(data).filter(([key, value]) => detailedKeysToInclude.has(key))
RECURSIVE filterKeys(_, _)
filterKeys(dataKeys, include) ==
    IF dataKeys = <<>> THEN <<>>
    ELSE (IF Head(dataKeys) \in include THEN <<Head(dataKeys)>> ELSE <<>>)
         \o filterKeys(Tail(dataKeys), include)

\* the field names of the rows of each worksheet, in the order of the documents
createExcelFile(xrev, all, map, selected) ==
    IF xrev = "leitor.js:398"
    THEN [i \in 1..Len(all) |->
             filterKeys(all[i].keys,
                 detailedKeysToIncludeV2(all[i],
                     selectionOf(map, all[i].arquivo_original)))]
    ELSE [i \in 1..Len(all) |->
             filterKeys(all[i].keys, detailedKeysToIncludeV1(all, selected))]

----------------------------------------------------------------------------
(* aggregatePointData, src/leitor.js:743-763.  The sums are exact          *)
(* fractions; the numbers of the model have at most two decimals or are    *)
(* sixtieths, so no sum of them lies halfway between two hundredths, where *)
(* the binary rounding of the engine would decide the digits.              *)

sTotalHorasTrabalhadas ==
    <<"t", "o", "t", "a", "l", "_", "h", "o", "r", "a", "s", "_",
      "t", "r", "a", "b", "a", "l", "h", "a", "d", "a", "s">>

sHorasExtraDiarias ==
    <<"h", "o", "r", "a", "s", "_", "e", "x", "t", "r", "a", "_",
      "d", "i", "a", "r", "i", "a", "s">>

sUndefined == <<"u", "n", "d", "e", "f", "i", "n", "e", "d">>

Undefined == [t |-> "undefined", s |-> <<>>, num |-> 0, den |-> 1]

\* data.key on a record: undefined when the record has no such field
get(data, k) == IF k \in DOMAIN data THEN data[k] ELSE Undefined

\* typeof v === 'number'
isNumber(v) == v.t \in {"number", "NaN"}

\* String(v) of a value that is not a number
String(v) == IF v.t = "string" THEN v.s ELSE sUndefined

\* n || 0
orZero(n) == IF truthy(n) THEN n ELSE Num(0, 1)

\* the field parsed without .replace(',', '.')
fieldWithoutReplace(v) ==
    IF isNumber(v) THEN v ELSE orZero(parseFloat(String(v)))

\* lines 747 and 748: the number a field counts as
fieldAsNumber(v) ==
    IF isNumber(v) THEN v
    ELSE orZero(parseFloat(replaceFirst(String(v), ",", ".")))

\* a + b on numbers
plus(a, b) ==
    IF a = NaN \/ b = NaN THEN NaN
    ELSE Num(a.num * b.den + b.num * a.den, a.den * b.den)

\* line 746 (the identities of the model are strings)
identityOf(data) ==
    IF truthy(get(data, sNomeColaborador))
    THEN get(data, sNomeColaborador).s ELSE sDesconhecido

\* lines 750-752
ensureEntry(summary, nome) ==
    IF nome \in DOMAIN summary THEN summary
    ELSE put(summary, nome, [totalHoras |-> Num(0, 1), totalExtras |-> Num(0, 1)])

\* lines 754-755
addTo(summary, nome, horasDiarias, horasExtras) ==
    put(summary, nome,
        [totalHoras |-> plus(summary[nome].totalHoras, horasDiarias),
         totalExtras |-> plus(summary[nome].totalExtras, horasExtras)])

\* one call of the dataList.forEach callback (lines 745-756)
aggregateStep(summary, data) ==
    addTo(ensureEntry(summary, identityOf(data)), identityOf(data),
          fieldAsNumber(get(data, sTotalHorasTrabalhadas)),
          fieldAsNumber(get(data, sHorasExtraDiarias)))

RECURSIVE aggregateLoop(_, _, _)
aggregateLoop(list, i, summary) ==
    IF i > Len(list) THEN summary
    ELSE aggregateLoop(list, i + 1, aggregateStep(summary, list[i]))

\* the decimal digits of a natural number
RECURSIVE natToString(_)
natToString(n) ==
    IF n < 10 THEN <<DigitSeq[n + 1]>>
    ELSE natToString(n \div 10) \o <<DigitSeq[(n % 10) + 1]>>

\* the integer nearest to 100 * n / d, the larger one of two
roundedCents(n, d) == (200 * n + d) \div (2 * d)

centsToString(c) ==
    natToString(c \div 100) \o <<".">>
        \o <<DigitSeq[((c % 100) \div 10) + 1], DigitSeq[(c % 10) + 1]>>

\* Number.prototype.toFixed(2)
toFixed2(v) ==
    IF v = NaN THEN <<"N", "a", "N">>
    ELSE (IF v.num < 0 THEN <<"-">> ELSE <<>>)
         \o centsToString(roundedCents(Abs(v.num), v.den))

\* lines 758-761
fixEntry(entry) ==
    [totalHoras |-> toFixed2(entry.totalHoras),
     totalExtras |-> toFixed2(entry.totalExtras)]

fixAll(summary) == [nome \in DOMAIN summary |-> fixEntry(summary[nome])]

aggregatePointData(list) == fixAll(aggregateLoop(list, 1, <<>>))

----------------------------------------------------------------------------
(* The response handling of app.post('/upload'), src/leitor.js:1071-1103.  *)
(* Positions are counted from 1, and 0 stands for the -1 of lastIndexOf.   *)

\* String.prototype.lastIndexOf(c, fromIndex) with a one-character string:
\* the last position not after from that holds c
lastIndexOf(s, c, from) ==
    IF \E i \in 1..Len(s) : i <= from /\ s[i] = c
    THEN CHOOSE k \in 1..Len(s) :
             /\ k <= from /\ s[k] = c
             /\ \A j \in (k + 1)..Len(s) : j <= from => s[j] # c
    ELSE 0

\* the while loop of lines 1082-1084: back to the start of the line
RECURSIVE lineStart(_, _)
lineStart(s, jsonStart) ==
    IF jsonStart > 1 /\ s[jsonStart - 1] # "\n"
    THEN lineStart(s, jsonStart - 1) ELSE jsonStart

\* the opening fence (three backticks, an optional 'json' in any case, then
\* white space) matched at the start of s: the length of the match
RECURSIVE spacesFrom(_, _)
spacesFrom(s, i) ==
    IF i <= Len(s) /\ IsSpace(s[i]) THEN 1 + spacesFrom(s, i + 1) ELSE 0

startsWithAt(s, i, w) ==
    i + Len(w) - 1 <= Len(s) /\ SubSeq(s, i, i + Len(w) - 1) = w

\* the backtick, which a TLA+ string cannot hold, is written "~"
Backtick == "~"

sFence == <<Backtick, Backtick, Backtick>>

sJson == <<"j", "s", "o", "n">>

openingFenceLen(s) ==
    IF ~startsWithAt(s, 1, sFence) THEN 0
    ELSE IF startsWithAt(toLowerCase(s), 4, sJson)
    THEN 7 + spacesFrom(s, 8)
    ELSE 3 + spacesFrom(s, 4)

\* the first .replace of line 1091: the opening fence
stripOpeningFence(s) == SubSeq(s, openingFenceLen(s) + 1, Len(s))

\* the second .replace of line 1091: white space and three backticks at the end
stripClosingFence(s) ==
    IF Len(s) >= 3 /\ SubSeq(s, Len(s) - 2, Len(s)) = sFence
    THEN trimEnd(SubSeq(s, 1, Len(s) - 3))
    ELSE s

\* lines 1078-1089 for potentialJsonStart: csvPart and jsonPart
\* (jsonPart = <<>> stands for null)
splitAt(responseText, potentialJsonStart) ==
    IF potentialJsonStart = 0
    THEN [csvPart |-> responseText, jsonPart |-> <<>>]
    ELSE [csvPart |-> trim(SubSeq(responseText, 1,
                                  lineStart(responseText, potentialJsonStart) - 1)),
          jsonPart |-> trim(SubSeq(responseText,
                                   lineStart(responseText, potentialJsonStart),
                                   Len(responseText)))]

\* lines 1074-1089
splitAtBrace(responseText, lastBraceIndex) ==
    IF lastBraceIndex = 0
    THEN [csvPart |-> responseText, jsonPart |-> <<>>]
    ELSE splitAt(responseText, lastIndexOf(responseText, "{", lastBraceIndex))

\* line 1091
stripFences(parts) ==
    [csvPart |-> parts.csvPart,
     jsonPart |-> IF parts.jsonPart # <<>>
                  THEN stripClosingFence(stripOpeningFence(parts.jsonPart))
                  ELSE <<>>]

\* lines 1071-1091 for responseText = response.text.trim()
splitResponse(responseText) ==
    stripFences(splitAtBrace(responseText,
                             lastIndexOf(responseText, "}", Len(responseText))))

----------------------------------------------------------------------------
(* JSON.parse, as far as the handler uses it: whether the text is JSON.    *)
(* Each operator takes the position where a construct starts and gives the *)
(* position after it, 0 when the text is not JSON there.  Strings hold no  *)
(* \u escapes and numbers no exponent in the texts of the model.           *)

JsonSpace == {" ", "\n", "\t", "\r"}

RECURSIVE skipSpace(_, _)
skipSpace(s, i) ==
    IF i <= Len(s) /\ s[i] \in JsonSpace THEN skipSpace(s, i + 1) ELSE i

\* j is inside a string, after its opening quote
RECURSIVE stringEnd(_, _)
stringEnd(s, j) ==
    IF j > Len(s) THEN 0
    ELSE IF s[j] = "\"" THEN j + 1
    ELSE IF s[j] = "\\" THEN stringEnd(s, j + 2)
    ELSE IF s[j] \in {"\n", "\t", "\r"} THEN 0
    ELSE stringEnd(s, j + 1)

jsonString(s, i) ==
    IF i >= 1 /\ i <= Len(s) /\ s[i] = "\"" THEN stringEnd(s, i + 1) ELSE 0

RECURSIVE digitsEnd(_, _)
digitsEnd(s, i) ==
    IF i <= Len(s) /\ IsDigit(s[i]) THEN digitsEnd(s, i + 1) ELSE i

\* the integer part: "0" alone or digits that do not start with "0"
integerEnd(s, i) ==
    IF i > Len(s) \/ ~IsDigit(s[i]) THEN 0
    ELSE IF s[i] = "0" THEN i + 1
    ELSE digitsEnd(s, i)

\* an optional fraction after the integer part that ended before k
fractionEnd(s, k) ==
    IF k = 0 THEN 0
    ELSE IF k <= Len(s) /\ s[k] = "."
    THEN (IF digitsEnd(s, k + 1) > k + 1 THEN digitsEnd(s, k + 1) ELSE 0)
    ELSE k

jsonNumber(s, i) ==
    fractionEnd(s, integerEnd(s, IF i <= Len(s) /\ s[i] = "-" THEN i + 1 ELSE i))

jsonLiteral(s, i) ==
    IF startsWithAt(s, i, <<"t", "r", "u", "e">>) THEN i + 4
    ELSE IF startsWithAt(s, i, <<"n", "u", "l", "l">>) THEN i + 4
    ELSE IF startsWithAt(s, i, <<"f", "a", "l", "s", "e">>) THEN i + 5
    ELSE 0

RECURSIVE jsonValue(_, _)
RECURSIVE jsonMembers(_, _)
RECURSIVE jsonElements(_, _)

\* p is the position after a member's value and the white space behind it
afterMember(s, p) ==
    IF p > Len(s) THEN 0
    ELSE IF s[p] = "}" THEN p + 1
    ELSE IF s[p] = "," THEN jsonMembers(s, skipSpace(s, p + 1))
    ELSE 0

\* p is the position after a member's name and the white space behind it
afterName(s, p) ==
    IF p <= Len(s) /\ s[p] = ":" THEN jsonValue(s, skipSpace(s, p + 1)) ELSE 0

\* e is the position after a member's name, 0 when there is no name
memberFrom(s, e) == IF e = 0 THEN 0 ELSE afterName(s, skipSpace(s, e))

\* e is the position after a member's value, 0 when there is no value
membersFrom(s, e) == IF e = 0 THEN 0 ELSE afterMember(s, skipSpace(s, e))

\* i is the position of a member's name
jsonMembers(s, i) == membersFrom(s, memberFrom(s, jsonString(s, i)))

\* p is the position after an element and the white space behind it
afterElement(s, p) ==
    IF p > Len(s) THEN 0
    ELSE IF s[p] = "]" THEN p + 1
    ELSE IF s[p] = "," THEN jsonElements(s, skipSpace(s, p + 1))
    ELSE 0

elementsFrom(s, e) == IF e = 0 THEN 0 ELSE afterElement(s, skipSpace(s, e))

\* i is the position of an element
jsonElements(s, i) == elementsFrom(s, jsonValue(s, i))

\* i is the position after "{" and the white space behind it
jsonObject(s, i) ==
    IF i <= Len(s) /\ s[i] = "}" THEN i + 1 ELSE jsonMembers(s, i)

\* i is the position after "[" and the white space behind it
jsonArray(s, i) ==
    IF i <= Len(s) /\ s[i] = "]" THEN i + 1 ELSE jsonElements(s, i)

jsonValue(s, i) ==
    IF i > Len(s) THEN 0
    ELSE IF s[i] = "{" THEN jsonObject(s, skipSpace(s, i + 1))
    ELSE IF s[i] = "[" THEN jsonArray(s, skipSpace(s, i + 1))
    ELSE IF s[i] = "\"" THEN jsonString(s, i)
    ELSE IF s[i] \in {"t", "f", "n"} THEN jsonLiteral(s, i)
    ELSE jsonNumber(s, i)

\* e is the position after the value, 0 when there is none
endsAfter(s, e) == e # 0 /\ skipSpace(s, e) = Len(s) + 1

\* JSON.parse(text) returns: it does not throw a SyntaxError
jsonParses(text) == endsAfter(text, jsonValue(text, skipSpace(text, 1)))

----------------------------------------------------------------------------
(* callApiWithRetry, src/leitor.js:715-738 (and src/unnamed/part_000:52-73, *)
(* src/unnamed/part_001:50-73), and the handler app.post('/upload'),        *)
(* src/leitor.js:1026-1173.  An error is modelled by its kind: the message  *)
(* of a placeholder is the kind of the error it reports.                   *)

\* the default value of the parameter maxRetries
DefaultMaxRetries == 5

\* the position of callApiWithRetry after apiCall has rejected (lines 720-735)
afterRejection(isRateLimitError, att, max) ==
    IF isRateLimitError
    THEN IF att = max - 1
         THEN [rpc |-> "thrown", outcome |-> "rateLimitError"]
         ELSE [rpc |-> "waiting", outcome |-> "none"]
    ELSE [rpc |-> "thrown", outcome |-> "apiError"]

\* the loop goes on to the next file without awaiting the call
callNotAwaited(i) == [upc |-> "file", fileIndex |-> i + 1]

\* await callApiWithRetry(apiCall) (line 1070): the loop stays at the file
callAwaited(i) == [upc |-> "awaiting", fileIndex |-> i]

\* ks.forEach(key => set.add(key)) on a Set kept in insertion order
RECURSIVE addAll(_, _)
addAll(set, ks) ==
    IF ks = <<>> THEN set ELSE addAll(setAdd(set, ks[1]), Tail(ks))

\* Object.keys of a record parseCsvRecords built for the cleaned headers:
\* arquivo_original, every header, and the identity lines 854-856 ensure
objectKeys(hdrs) ==
    addAll(<<>>, <<sArquivoOriginal>> \o hdrs \o <<sNomeColaborador>>)

\* lines 1112-1116, the keys the records add to allDetailedKeys
addRecordKeys(set, recs, hdrs) ==
    IF recs = <<>> THEN set ELSE addAll(set, objectKeys(hdrs))

\* line 1145
orderedKeys ==
    <<<<"n", "o", "m", "e", "_", "c", "o", "l", "a", "b", "o", "r", "a", "d", "o", "r">>,
      <<"d", "a", "t", "a", "_", "r", "e", "g", "i", "s", "t", "r", "o">>,
      <<"e", "n", "t", "r", "a", "d", "a", "_", "1">>,
      <<"s", "a", "i", "d", "a", "_", "1">>,
      <<"e", "n", "t", "r", "a", "d", "a", "_", "2">>,
      <<"s", "a", "i", "d", "a", "_", "2">>,
      <<"t", "o", "t", "a", "l", "_", "h", "o", "r", "a", "s", "_", "t", "r", "a", "b", "a", "l", "h", "a", "d", "a", "s">>,
      <<"h", "o", "r", "a", "s", "_", "e", "x", "t", "r", "a", "_", "d", "i", "a", "r", "i", "a", "s">>,
      <<"h", "o", "r", "a", "s", "_", "f", "a", "l", "t", "a", "_", "d", "i", "a", "r", "i", "a", "s">>,
      <<"r", "e", "s", "u", "m", "o", "_", "e", "x", "e", "c", "u", "t", "i", "v", "o", "_", "m", "e", "n", "s", "a", "l">>,
      <<"a", "r", "q", "u", "i", "v", "o", "_", "o", "r", "i", "g", "i", "n", "a", "l">>>>

\* JSON.parse without the try/catch around it
monthlySummaryUncaught(jsonPart) ==
    IF jsonPart = <<>> THEN "null"
    ELSE IF jsonParses(jsonPart) THEN "parsed" ELSE "SyntaxError"

\* lines 1098-1105: monthlySummaryPlaceholder, null unless the text parsed
monthlySummaryPlaceholder(jsonPart) ==
    IF jsonPart # <<>> /\ jsonParses(jsonPart) THEN "parsed" ELSE "null"

\* what the body of the inner try throws after the two parsing steps
\* (lines 1095-1110), "none" when it runs to its end
thrownByBody(placeholder, dailyRecords) ==
    IF placeholder = "SyntaxError" THEN "SyntaxError"
    ELSE IF dailyRecords = <<>> THEN "noRecords"
    ELSE "none"

bodyResult(placeholder, parsed) ==
    [error |-> thrownByBody(placeholder, parsed.records),
     records |-> parsed.records,
     headers |-> parsed.headers]

\* lines 1071-1110 for the split response
tryBody(parts, file) ==
    bodyResult(monthlySummaryPlaceholder(parts.jsonPart),
               parseCsvRecords(parts.csvPart, file))

failed(kind) == [error |-> kind, records |-> <<>>, headers |-> <<>>]

\* the inner try (lines 1069-1110) once callApiWithRetry has settled; a
\* returned undefined makes response.text throw a TypeError
innerTry(position, result, text, file) ==
    IF position = "thrown" THEN failed(result)
    ELSE IF result = "undefined" THEN failed("TypeError")
    ELSE tryBody(splitResponse(trim(text)), file)

\* firstRecord.nome_colaborador || 'N/A'
nameOrNA(firstRecord) ==
    IF truthy(get(firstRecord, sNomeColaborador))
    THEN get(firstRecord, sNomeColaborador) ELSE Str(sNA)

\* lines 1126-1131 and 1136-1139: the entry of the document for the client
clientEntry(file, r) ==
    IF r.error = "none"
    THEN [arquivo_original |-> file,
          nome_colaborador |-> nameOrNA(r.records[1]),
          total_dias_registrados |-> Len(r.records),
          resumo_parcial |-> "Extracao de dados brutos concluida."]
    ELSE [arquivo_original |-> file, erro |-> r.error]

\* lines 1119-1124
fieldListsAfter(lists, file, r) ==
    IF r.error = "none"
    THEN Append(lists, [filename |-> file,
                        keys |-> groupKeys("leitor.js:870", objectKeys(r.headers))])
    ELSE lists

\* lines 1112-1116
excelAfter(list, r) == IF r.error = "none" THEN list \o r.records ELSE list

keysAfter(set, r) ==
    IF r.error = "none" THEN addRecordKeys(set, r.records, r.headers) ELSE set

\* lines 1154-1159
sessionOf(data, lists, detailedKeys) ==
    [data |-> data,
     fieldLists |-> lists,
     allDetailedKeys |-> sort(detailedKeys),
     monthlySummary |-> aggregatePointData(data)]

----------------------------------------------------------------------------
(* createExcelFile: the worksheets.  src/leitor.js:444-458, 897-971 and     *)
(* src/unnamed/part_003:178-192.                                           *)

\* filename.replace(/\.[^/.]+$/, ""): without its extension, if it has one
withoutExtension(name) ==
    IF /\ lastIndexOf(name, ".", Len(name)) \in 1..(Len(name) - 1)
       /\ \A k \in (lastIndexOf(name, ".", Len(name)) + 1)..Len(name) : name[k] # "/"
    THEN SubSeq(name, 1, lastIndexOf(name, ".", Len(name)) - 1)
    ELSE name

\* String.prototype.substring(0, n)
substring0(s, n) == SubSeq(s, 1, IF Len(s) < n THEN Len(s) ELSE n)

\* the characters of the class [\[\]\*\:\/\?\\\,]
UnsafeChars == {"[", "]", "*", ":", "/", "?", "\\", ","}

\* .replace(/[\[\]\*\:\/\?\\\,]/g, ' ')
replaceUnsafe(s) == [k \in 1..Len(s) |-> IF s[k] \in UnsafeChars THEN " " ELSE s[k]]

\* .replace(/\.$/, '')
withoutFinalDot(s) ==
    IF s # <<>> /\ s[Len(s)] = "." THEN SubSeq(s, 1, Len(s) - 1) ELSE s

\* the characters of a sheet name taken from the base name
BaseNameLength == 28

\* the characters of the base name kept in front of a counter
CounterPrefixLength == 25

\* leitor.js:445-447, 958-960 and part_003:179-181
sheetBaseName(name) ==
    withoutFinalDot(trim(replaceUnsafe(substring0(withoutExtension(name),
                                                  BaseNameLength))))

\* the template of the disambiguated name, base (counter)
numbered(base, counter) ==
    substring0(base, CounterPrefixLength) \o <<" ", "(">> \o natToString(counter)
        \o <<")">>

\* the while loop of leitor.js:452-455: the first name that is not in use
RECURSIVE freeName(_, _, _, _)
freeName(worksheetName, base, counter, usedSheetNames) ==
    IF worksheetName \in usedSheetNames
    THEN freeName(numbered(base, counter), base, counter + 1, usedSheetNames)
    ELSE worksheetName

sDocumento == <<"D", "o", "c", "u", "m", "e", "n", "t", "o", " ">>

sArquivoPrefix == <<"A", "r", "q", "u", "i", "v", "o", " ">>

\* the name used when worksheetName is empty: Documento i+1 (leitor.js:458,
\* part_003:192), Arquivo filename (leitor.js:964); position counts from 1
fallbackName(xrev, position, name) ==
    IF xrev = "leitor.js:897" THEN sArquivoPrefix \o name
    ELSE sDocumento \o natToString(position)

\* worksheetName || fallback
addedName(xrev, worksheetName, position, name) ==
    IF worksheetName = <<>> THEN fallbackName(xrev, position, name) ELSE worksheetName

\* one iteration of the loop over the documents; st = [used, names]
sheetStep(xrev, st, worksheetName, position, name) ==
    [used |-> st.used \cup {worksheetName},
     names |-> Append(st.names, addedName(xrev, worksheetName, position, name))]

RECURSIVE sheetLoop(_, _, _, _)
sheetLoop(xrev, names, i, st) ==
    IF i > Len(names) THEN st
    ELSE sheetLoop(xrev, names, i + 1,
                   sheetStep(xrev, st,
                             freeName(sheetBaseName(names[i]), sheetBaseName(names[i]),
                                      1, st.used),
                             i, names[i]))

\* the file names the loop runs over: one per document (leitor.js:408,
\* part_003:175), one per distinct file name (the keys of dataByFile,
\* leitor.js:904-911 and 956)
sheetSources(xrev, all) ==
    IF xrev = "leitor.js:897"
    THEN addAll(<<>>, [i \in 1..Len(all) |-> all[i].arquivo_original])
    ELSE [i \in 1..Len(all) |-> all[i].arquivo_original]

\* the names passed to workbook.addWorksheet, in order
worksheetNamesOf(xrev, all) ==
    sheetLoop(xrev, sheetSources(xrev, all), 1, [used |-> {}, names |-> <<>>]).names

RECURSIVE keepOrdered(_, _)
keepOrdered(ordered, allKeys) ==
    IF ordered = <<>> THEN <<>>
    ELSE (IF Head(ordered) \in allKeys THEN <<Head(ordered)>> ELSE <<>>)
         \o keepOrdered(Tail(ordered), allKeys)

RECURSIVE dropOrdered(_)
dropOrdered(detailed) ==
    IF detailed = <<>> THEN <<>>
    ELSE (IF \E k \in 1..Len(orderedKeys) : orderedKeys[k] = Head(detailed)
          THEN <<>> ELSE <<Head(detailed)>>)
         \o dropOrdered(Tail(detailed))

\* leitor.js:914-917: the columns of every worksheet
finalKeys(detailed) ==
    addAll(<<>>, keepOrdered(orderedKeys, {detailed[k] : k \in 1..Len(detailed)})
                     \o sort(addAll(<<>>, dropOrdered(detailed))))

\* the field list of each worksheet; the third argument of leitor.js:897 is
\* allDetailedKeys, that of part_003:135 the selection
exportedFields(xrev, all, map, third) ==
    IF xrev = "leitor.js:897"
    THEN [i \in 1..Len(sheetSources(xrev, all)) |-> finalKeys(third)]
    ELSE createExcelFile(xrev, all, map, third)

----------------------------------------------------------------------------
(* Inputs *)

SeqsUpTo(S, lo, hi) == UNION {[1..k -> S] : k \in lo..hi}

RECURSIVE Join(_, _)
Join(parts, sep) ==
    IF parts = <<>> THEN <<>>
    ELSE IF Len(parts) = 1 THEN parts[1]
    ELSE parts[1] \o <<sep>> \o Join(Tail(parts), sep)

cNomeColaborador ==
    <<"N", "o", "m", "e", "_", "C", "o", "l", "a", "b", "o", "r", "a", "d", "o", "r">>

cDataRegistro ==
    <<"D", "a", "t", "a", "_", "R", "e", "g", "i", "s", "t", "r", "o">>

cEntrada1 == <<"E", "n", "t", "r", "a", "d", "a", "_", "1">>

cSaida1 == <<"S", "a", "i", "d", "a", "_", "1">>

cTotalHoras == <<"T", "o", "t", "a", "l", "_", "H", "o", "r", "a", "s">>

cArquivoOriginal ==
    <<"A", "r", "q", "u", "i", "v", "o", "_", "O", "r", "i", "g", "i", "n", "a", "l">>

cNome == <<"N", "o", "m", "e">>

cData == <<"D", "a", "t", "a">>

vAna == <<"A", "n", "a">>

vMaria == <<"M", "a", "r", "i", "a">>

vDay1 == <<"0", "1", "/", "0", "1", "/", "2", "0", "2", "4">>

vDay2 == <<"0", "2", "/", "0", "1", "/", "2", "0", "2", "4">>

v0800 == <<"0", "8", ":", "0", "0">>

v1700 == <<"1", "7", ":", "0", "0">>

v0805 == <<"0", "8", ":", "0", "5">>

v1710 == <<"1", "7", ":", "1", "0">>

v8c5 == <<"8", ",", "5">>

fileF == <<"f", ".", "p", "d", "f">>

fileX == <<"x", ".", "p", "d", "f">>

\* the header and the two data rows of the specification's scenario
ExampleHeader == Join(<<cNome, cData, cEntrada1, cSaida1>>, ";")

ExampleRow1 == Join(<<vAna, vDay1, v0800, v1700>>, ";")

ExampleRow2 == Join(<<sNA, vDay2, v0805, v1710>>, ";")

ExampleCsv == Join(<<ExampleHeader, ExampleRow1, ExampleRow2>>, "\n")

HeaderPool ==
    { ExampleHeader,
      Join(<<cNomeColaborador, cDataRegistro, cEntrada1, cSaida1>>, ";"),
      Join(<<cNomeColaborador, cDataRegistro, cTotalHoras, cArquivoOriginal>>, ";"),
      Join(<<cNomeColaborador, cDataRegistro, cEntrada1>>, ","),
      Join(<<cNomeColaborador, cDataRegistro, cEntrada1, <<>>>>, ";") }

RowPool ==
    { ExampleRow1,
      ExampleRow2,
      Join(<<vMaria, vDay1, v8c5, fileX>>, ";"),
      Join(<<<<>>, vDay2, v0800, sNA>>, ";"),
      Join(<<sNA, sNA, sNA, sNA>>, ";"),
      Join(<<vMaria, vDay1>>, ";"),
      Join(<<vMaria, vDay2, v0800>>, ","),
      Join(<<vMaria, vDay2, v0800>>, ";"),
      <<" ">> }

FileNames == {fileF, fileX}

\* a header line followed by up to MaxRows data lines
StructuredTexts ==
    { Join(<<h>> \o rows, "\n") : h \in HeaderPool, rows \in SeqsUpTo(RowPool, 0, MaxRows) }

HdrAlphabet == {"a", "B", " ", "_", "!", ";", ","}

\* every short header line over HdrAlphabet, followed by one data line
BroadTexts ==
    { line \o <<"\n">> \o <<"a", ";", "b">> : line \in SeqsUpTo(HdrAlphabet, 1, MaxHdrLen) }

sValor1 == <<"v", "a", "l", "o", "r", "_", "1">>

sValor2 == <<"v", "a", "l", "o", "r", "_", "2">>

sValor == <<"v", "a", "l", "o", "r">>

sNomeCliente == <<"n", "o", "m", "e", "_", "c", "l", "i", "e", "n", "t", "e">>

\* the header list of the specification's scenario
ExampleKeys == <<sValor1, sValor2, sNomeCliente>>

KeyBases == {<<"a">>, <<"b">>, <<"a", "_", "b">>}

KeySuffixes == {<<>>, <<"_", "1">>, <<"_", "2">>, <<"1">>, <<"_", "a">>}

KeyPool ==
    {b \o s : b \in KeyBases, s \in KeySuffixes}
        \cup {sArquivoOriginal, sResumoExecutivo, sResumoExecutivoMensal}

KeyAlphabet == {"a", "b", "1", "_", "-"}

\* lists of up to MaxKeys pool names, every short name over KeyAlphabet alone,
\* and the scenario's list
KeyLists ==
    SeqsUpTo(KeyPool, 0, MaxKeys)
        \cup { <<k>> : k \in SeqsUpTo(KeyAlphabet, 1, MaxKeyLen) }
        \cup { ExampleKeys }

sA == <<"a">>

sA1 == <<"a", "1">>

sAUnderscore == <<"a", "_">>

sAUnderscore1 == <<"a", "_", "1">>

sAUnderscoreB == <<"a", "_", "b">>

s1 == <<"1">>

sEmpty == <<>>

\* Object.keys of the documents: arquivo_original with numbered, lettered,
\* underscore-ended, all-digit and empty field names
DocKeyLists ==
    { <<sArquivoOriginal, sA1, sAUnderscore>>,
      <<sArquivoOriginal, sValor1, sValor2, sNomeCliente>>,
      <<sArquivoOriginal, sEmpty, s1>>,
      <<sArquivoOriginal, sAUnderscore1, sAUnderscoreB, sResumoExecutivo>> }

DocPool ==
    { [arquivo_original |-> f, keys |-> ks] : f \in FileNames, ks \in DocKeyLists }

\* the selections a client sends
SelectionPool ==
    { <<>>, <<sA>>, <<sValor>>, <<sValor, sNomeCliente>>, <<sEmpty>>,
      <<sArquivoOriginal>>, <<sAUnderscore1>>, <<sValor1, sValor2>> }

SelectionMaps == UNION { [D -> SelectionPool] : D \in SUBSET FileNames }

vBob == <<"B", "o", "b">>

v1p5 == <<"1", ".", "5">>

\* the values a field of a record holds: a number, a numeral with either
\* separator, a numeral followed by text, a text, or Undefined for no field
HourValues ==
    { Undefined, Str(v8c5), Str(v1p5), Num(17, 2), Num(97, 12),
      Str(<<"-", "1", ",", "2", "5">>), Str(<<"8", "h">>), Str(sNA) }

ExtraValues == { Undefined, Str(<<"0", ",", "5">>), Num(1, 1) }

IdentityValues == { Undefined, Str(vAna), Str(vBob), Str(<<>>) }

\* the record with the fields that are not Undefined
pointRecord(nome, total, extras) ==
    [k \in { f \in {sNomeColaborador, sTotalHorasTrabalhadas, sHorasExtraDiarias} :
                (f = sNomeColaborador /\ nome # Undefined)
                    \/ (f = sTotalHorasTrabalhadas /\ total # Undefined)
                    \/ (f = sHorasExtraDiarias /\ extras # Undefined) } |->
        IF k = sNomeColaborador THEN nome
        ELSE IF k = sTotalHorasTrabalhadas THEN total ELSE extras]

\* records with any worked-hours field and no overtime field, and records
\* with an overtime field
PointRecords ==
    { pointRecord(n, t, Undefined) : n \in IdentityValues, t \in HourValues }
        \cup { pointRecord(n, t, x) : n \in IdentityValues,
                                      t \in {Undefined, Str(v1p5)},
                                      x \in ExtraValues \ {Undefined} }

\* the list of the specification's scenario
ExampleRecords ==
    << pointRecord(Str(vAna), Str(v8c5), Undefined),
       pointRecord(Str(vAna), Str(v1p5), Undefined) >>

\* the table of the responses of the model
TableText ==
    <<"n", "o", "m", "e", "_", "c", "o", "l", "a", "b", "o", "r", "a", "d", "o", "r", ";", "d", "a", "t", "a", "_", "r", "e", "g", "i", "s", "t", "r", "o", ";", "e", "n", "t", "r", "a", "d", "a", "_", "1", "\n", "A", "n", "a", " ", "L", ";", "1", ";", "2">>

\* a table and a summary object, as the prompt asks for
TableAndSummary ==
    TableText \o <<"\n", "{", "\"", "r", "e", "s", "u", "m", "o", "\"", ":", "\"", "o", "k", "\"", "}">>

\* a table and a summary block that is not JSON
TableAndMalformedSummary ==
    TableText \o <<"\n", "{", "r", "e", "s", "u", "m", "o", ":", " ", "o", "k", "}">>

\* a table of two rows and the summary in a code fence
TableAndFencedSummary ==
    TableText \o <<"\n", "A", "n", "a", " ", "L", ";", "2", ";", "3", "\n", Backtick, Backtick, Backtick, "j", "s", "o", "n", "\n", "{", "\"", "r", "e", "s", "u", "m", "o", "\"", ":", "\"", "o", "k", "\"", "}", "\n", Backtick, Backtick, Backtick>>

\* a summary block that is not JSON, and no table
MalformedSummaryOnly ==
    <<"{", "r", "e", "s", "u", "m", "o", ":", " ", "o", "k", "}">>

\* the fenced array of the specification's scenario
FencedArray ==
    <<Backtick, Backtick, Backtick, "j", "s", "o", "n", "\n", "[", "{", "\"", "n", "o", "m", "e", "\"", ":", "\"", "B", "o", "b", "\"", ",", "\"", "t", "o", "t", "a", "l", "_", "h", "o", "r", "a", "s", "_", "t", "r", "a", "b", "a", "l", "h", "a", "d", "a", "s", "\"", ":", "8", "}", ",", "{", "\"", "r", "e", "s", "u", "m", "o", "_", "e", "x", "e", "c", "u", "t", "i", "v", "o", "_", "m", "e", "n", "s", "a", "l", "\"", ":", "\"", "o", "k", "\"", "}", "]", "\n", Backtick, Backtick, Backtick>>

\* what response.text can be
ResponseTexts ==
    {TableText, TableAndSummary, TableAndMalformedSummary, TableAndFencedSummary,
     MalformedSummaryOnly, FencedArray, <<>>}

\* an uploaded file: its name and whether its temporary file can be read
UploadedFiles == [originalname : FileNames, exists : BOOLEAN]

Uploads == SeqsUpTo(UploadedFiles, 0, MaxFiles)

\* values of Date.now()
Clock == {1, 12}

\* file names: a plain one, one that is only an extension, one that
\* sanitizes to nothing, the fallback names of a second document, a name
\* that looks numbered, two long names with the same first 28 characters,
\* and a long name that sanitizes to nothing
SheetFileNames ==
    { fileF,
      <<".", "p", "d", "f">>,
      <<"*", ".", "p", "d", "f">>,
      <<"D", "o", "c", "u", "m", "e", "n", "t", "o", " ", "2", ".", "p", "d", "f">>,
      <<"A", "r", "q", "u", "i", "v", "o", " ", ".", "p", "d", "f", ".", "p", "d", "f">>,
      <<"f", " ", "(", "1", ")", ".", "p", "d", "f">>,
      <<"r", "e", "l", "a", "t", "o", "r", "i", "o", " ", "d", "e", " ", "p", "o", "n", "t", "o", " ", "2", "0", "2", "4", " ", "m", "e", "s", " ", "0", "1", ".", "p", "d", "f">>,
      <<"r", "e", "l", "a", "t", "o", "r", "i", "o", " ", "d", "e", " ", "p", "o", "n", "t", "o", " ", "2", "0", "2", "4", " ", "m", "e", "s", " ", "0", "2", ".", "p", "d", "f">>,
      <<"*", "*", "*", "*", "*", "*", "*", "*", "*", "*", "*", "*", "*", "*", "*", "*", "*", "*", "*", "*", "*", "*", "*", "*", ".", "p", "d", "f">> }

\* the documents of a session, told apart by their file names
SheetDocs ==
    { [arquivo_original |-> f, keys |-> <<sArquivoOriginal, sA1>>] : f \in SheetFileNames }

----------------------------------------------------------------------------
(* Specifications *)

\* no call of the function is under way
IdleCsv ==
    /\ csvString = <<>>
    /\ filename = <<>>
    /\ pc = "idle"
    /\ separator = ""
    /\ headers = <<>>
    /\ records = <<>>

IdleKeys ==
    /\ keys = <<>>
    /\ revision = ""
    /\ kpc = "idle"
    /\ groupedKeys = <<>>
    /\ regroupedKeys = <<>>

IdleExcel ==
    /\ allExtractedData = <<>>
    /\ selectedFieldsMap = <<>>
    /\ selectedKeys = <<>>
    /\ excelRevision = ""
    /\ xpc = "idle"
    /\ verticalRows = <<>>
    /\ worksheetNames = <<>>

IdleAggregate ==
    /\ dataList = <<>>
    /\ apc = "idle"
    /\ monthlySummary = <<>>

IdleRetry ==
    /\ maxRetries = 0
    /\ attempt = 0
    /\ rpc = "idle"
    /\ apiCalls = 0
    /\ inFlight = 0
    /\ outcome = "none"
    /\ response = <<>>

IdleUpload ==
    /\ reqFiles = <<>>
    /\ upc = "idle"
    /\ fileIndex = 0
    /\ allResultsForClient = <<>>
    /\ allResultsForExcel = <<>>
    /\ fieldLists = <<>>
    /\ allDetailedKeys = <<>>
    /\ unlinked = <<>>
    /\ now = 0
    /\ sessionData = <<>>
    /\ httpStatus = 0

IdleUploadLocals ==
    /\ reqFiles = <<>>
    /\ upc = "idle"
    /\ fileIndex = 0
    /\ allResultsForClient = <<>>
    /\ allResultsForExcel = <<>>
    /\ fieldLists = <<>>
    /\ allDetailedKeys = <<>>
    /\ unlinked = <<>>
    /\ httpStatus = 0

IdleRequests ==
    /\ serverRevision = "none"
    /\ uploadRequests = <<>>
    /\ downloadRequests = <<>>
    /\ sessionObjects = <<>>
    /\ statusReply = <<>>

IdleServer == IdleRetry /\ IdleUpload /\ IdleRequests

IdleButServer == IdleCsv /\ IdleKeys /\ IdleExcel /\ IdleAggregate /\ IdleRequests

IdleButRequests ==
    IdleCsv /\ IdleKeys /\ IdleExcel /\ IdleAggregate /\ IdleRetry /\ IdleUploadLocals

IdleButCsv == IdleKeys /\ IdleExcel /\ IdleAggregate /\ IdleServer

IdleButKeys == IdleCsv /\ IdleExcel /\ IdleAggregate /\ IdleServer

IdleButExcel == IdleCsv /\ IdleKeys /\ IdleAggregate /\ IdleServer

IdleButAggregate == IdleCsv /\ IdleKeys /\ IdleExcel /\ IdleServer

InitCsv ==
    /\ csvString \in StructuredTexts \cup BroadTexts
    /\ filename \in FileNames
    /\ pc = "call"
    /\ separator = ""
    /\ headers = <<>>
    /\ records = <<>>
    /\ IdleButCsv

\* records = parseCsvRecords(csvString, filename)
ParseCsvRecords ==
    /\ pc = "call"
    /\ \E r \in {parseCsvRecords(csvString, filename)} :
           /\ separator' = r.separator
           /\ headers' = r.headers
           /\ records' = r.records
    /\ pc' = "done"
    /\ UNCHANGED <<csvString, filename>>
    /\ UNCHANGED allButCsv

NextCsv == ParseCsvRecords

SpecCsv == InitCsv /\ [][NextCsv]_vars

InitKeys ==
    /\ keys \in KeyLists
    /\ revision \in Revisions
    /\ kpc = "call"
    /\ groupedKeys = <<>>
    /\ regroupedKeys = <<>>
    /\ IdleButKeys

\* groupedKeys = groupKeys(keys)
GroupKeys ==
    /\ kpc = "call"
    /\ groupedKeys' = groupKeys(revision, keys)
    /\ kpc' = "once"
    /\ UNCHANGED <<keys, revision, regroupedKeys>>
    /\ UNCHANGED allButKeys

\* regroupedKeys = groupKeys(groupedKeys)
GroupKeysAgain ==
    /\ kpc = "once"
    /\ regroupedKeys' = groupKeys(revision, groupedKeys)
    /\ kpc' = "twice"
    /\ UNCHANGED <<keys, revision, groupedKeys>>
    /\ UNCHANGED allButKeys

NextKeys == GroupKeys \/ GroupKeysAgain

SpecKeys == InitKeys /\ [][NextKeys]_vars

InitExcel ==
    /\ allExtractedData \in SeqsUpTo(DocPool, 0, MaxDocs)
    /\ excelRevision \in ExcelRevisions
    /\ IF excelRevision = "leitor.js:398"
       THEN selectedFieldsMap \in SelectionMaps /\ selectedKeys = <<>>
       ELSE selectedKeys \in SelectionPool /\ selectedFieldsMap = <<>>
    /\ xpc = "call"
    /\ verticalRows = <<>>
    /\ worksheetNames = <<>>
    /\ IdleButExcel

\* createExcelFile(allExtractedData, outputPath, selection)
CreateExcelFile ==
    /\ xpc = "call"
    /\ verticalRows' =
           exportedFields(excelRevision, allExtractedData, selectedFieldsMap, selectedKeys)
    /\ worksheetNames' = worksheetNamesOf(excelRevision, allExtractedData)
    /\ xpc' = "done"
    /\ UNCHANGED <<allExtractedData, selectedFieldsMap, selectedKeys, excelRevision>>
    /\ UNCHANGED allButExcel

NextExcel == CreateExcelFile

SpecExcel == InitExcel /\ [][NextExcel]_vars

InitAggregate ==
    /\ dataList \in SeqsUpTo(PointRecords, 0, MaxRecords)
    /\ apc = "call"
    /\ monthlySummary = <<>>
    /\ IdleButAggregate

\* monthlySummary = aggregatePointData(dataList)
AggregatePointData ==
    /\ apc = "call"
    /\ monthlySummary' = aggregatePointData(dataList)
    /\ apc' = "done"
    /\ UNCHANGED dataList
    /\ UNCHANGED allButAggregate

NextAggregate == AggregatePointData

SpecAggregate == InitAggregate /\ [][NextAggregate]_vars

\* callApiWithRetry(apiCall, maxRetries) called on its own
InitRetry ==
    /\ maxRetries \in 0..MaxRetries
    /\ attempt = 0
    /\ rpc = "loop"
    /\ apiCalls = 0
    /\ inFlight = 0
    /\ outcome = "none"
    /\ response = <<>>
    /\ IdleUpload
    /\ IdleButServer

\* the head of the for loop and the call of apiCall (lines 717-719); the
\* function returns undefined when the loop ends
RetryLoop ==
    /\ rpc = "loop"
    /\ IF attempt < maxRetries
       THEN /\ rpc' = "awaiting"
            /\ apiCalls' = apiCalls + 1
            /\ inFlight' = inFlight + 1
            /\ UNCHANGED outcome
       ELSE /\ rpc' = "returned"
            /\ outcome' = "undefined"
            /\ UNCHANGED <<apiCalls, inFlight>>
    /\ UNCHANGED <<maxRetries, attempt, response>>
    /\ UNCHANGED <<uploadVars, allButServer>>

\* apiCall resolves: return await apiCall() (line 719)
ApiCallResolves ==
    /\ rpc = "awaiting"
    /\ \E text \in ResponseTexts : response' = text
    /\ rpc' = "returned"
    /\ outcome' = "payload"
    /\ inFlight' = inFlight - 1
    /\ UNCHANGED <<maxRetries, attempt, apiCalls>>
    /\ UNCHANGED <<uploadVars, allButServer>>

\* apiCall rejects: the catch block (lines 720-735) up to the timer
ApiCallRejects ==
    /\ rpc = "awaiting"
    /\ \E isRateLimitError \in BOOLEAN :
           \E r \in {afterRejection(isRateLimitError, attempt, maxRetries)} :
               /\ rpc' = r.rpc
               /\ outcome' = r.outcome
    /\ inFlight' = inFlight - 1
    /\ UNCHANGED <<maxRetries, attempt, apiCalls, response>>
    /\ UNCHANGED <<uploadVars, allButServer>>

\* the timer of line 731 fires and the loop goes to its next iteration
BackoffElapses ==
    /\ rpc = "waiting"
    /\ rpc' = "loop"
    /\ attempt' = attempt + 1
    /\ UNCHANGED <<maxRetries, apiCalls, inFlight, outcome, response>>
    /\ UNCHANGED <<uploadVars, allButServer>>

NextRetry == RetryLoop \/ ApiCallResolves \/ ApiCallRejects \/ BackoffElapses

SpecRetry == InitRetry /\ [][NextRetry]_vars

\* a request to /upload has arrived with its files stored
InitUpload ==
    /\ reqFiles \in Uploads
    /\ upc = "start"
    /\ fileIndex = 0
    /\ allResultsForClient = <<>>
    /\ allResultsForExcel = <<>>
    /\ fieldLists = <<>>
    /\ allDetailedKeys = <<>>
    /\ unlinked = <<>>
    /\ now \in Clock
    /\ sessionData = <<>>
    /\ httpStatus = 0
    /\ IdleRetry
    /\ IdleButServer

\* lines 1027-1058: the 400 answer or the entry into the loop
UploadStart ==
    /\ upc = "start"
    /\ IF reqFiles = <<>>
       THEN /\ httpStatus' = 400
            /\ upc' = "responded"
            /\ UNCHANGED fileIndex
       ELSE /\ upc' = "file"
            /\ fileIndex' = 1
            /\ UNCHANGED httpStatus
    /\ UNCHANGED <<reqFiles, allResultsForClient, allResultsForExcel, fieldLists,
                   allDetailedKeys, unlinked, now, sessionData>>
    /\ UNCHANGED <<retryVars, allButServer>>

\* lines 1059-1070: fileToGenerativePart, whose throw is caught by the outer
\* catch (lines 1167-1172), then the call of callApiWithRetry
BeginFile ==
    /\ upc = "file"
    /\ fileIndex <= Len(reqFiles)
    /\ IF reqFiles[fileIndex].exists
       THEN /\ \E p \in {callAwaited(fileIndex)} :
                   /\ upc' = p.upc
                   /\ fileIndex' = p.fileIndex
            /\ maxRetries' = DefaultMaxRetries
            /\ attempt' = 0
            /\ rpc' = "loop"
            /\ apiCalls' = 0
            /\ outcome' = "none"
            /\ response' = <<>>
            /\ UNCHANGED <<inFlight, httpStatus>>
       ELSE /\ httpStatus' = 500
            /\ upc' = "responded"
            /\ UNCHANGED <<fileIndex, retryVars>>
    /\ UNCHANGED <<reqFiles, allResultsForClient, allResultsForExcel, fieldLists,
                   allDetailedKeys, unlinked, now, sessionData>>
    /\ UNCHANGED allButServer

\* lines 1070-1142: the rest of the loop body once callApiWithRetry settled
AfterCall ==
    /\ upc = "awaiting"
    /\ rpc \in {"returned", "thrown"}
    /\ \E r \in {innerTry(rpc, outcome, response, reqFiles[fileIndex].originalname)} :
           /\ allResultsForClient' =
                  Append(allResultsForClient,
                         clientEntry(reqFiles[fileIndex].originalname, r))
           /\ allResultsForExcel' = excelAfter(allResultsForExcel, r)
           /\ fieldLists' =
                  fieldListsAfter(fieldLists, reqFiles[fileIndex].originalname, r)
           /\ allDetailedKeys' = keysAfter(allDetailedKeys, r)
    /\ unlinked' = Append(unlinked, fileIndex)
    /\ fileIndex' = fileIndex + 1
    /\ upc' = "file"
    /\ rpc' = "idle"
    /\ UNCHANGED <<maxRetries, attempt, apiCalls, inFlight, outcome, response>>
    /\ UNCHANGED <<reqFiles, now, sessionData, httpStatus>>
    /\ UNCHANGED allButServer

\* lines 1145-1165: the session and the answer
Finish ==
    /\ upc = "file"
    /\ fileIndex > Len(reqFiles)
    /\ allDetailedKeys' = addAll(allDetailedKeys, orderedKeys)
    /\ IF allResultsForExcel = <<>>
       THEN /\ httpStatus' = 500
            /\ UNCHANGED sessionData
       ELSE /\ httpStatus' = 200
            /\ sessionData' =
                   put(sessionData, natToString(now),
                       sessionOf(allResultsForExcel, fieldLists,
                                 addAll(allDetailedKeys, orderedKeys)))
    /\ upc' = "responded"
    /\ UNCHANGED <<reqFiles, fileIndex, allResultsForClient, allResultsForExcel,
                   fieldLists, unlinked, now>>
    /\ UNCHANGED <<retryVars, allButServer>>

NextUpload ==
    \/ UploadStart
    \/ BeginFile
    \/ RetryLoop
    \/ ApiCallResolves
    \/ ApiCallRejects
    \/ BackoffElapses
    \/ AfterCall
    \/ Finish

SpecUpload == InitUpload /\ [][NextUpload]_vars

\* createExcelFile called for documents with all kinds of file names and
\* every field exported
InitSheets ==
    /\ allExtractedData \in SeqsUpTo(SheetDocs, 1, MaxSheets)
    /\ excelRevision \in ExcelRevisions \cup {"leitor.js:897"}
    /\ selectedFieldsMap = <<>>
    /\ selectedKeys = IF excelRevision = "leitor.js:897"
                      THEN <<sA1, sArquivoOriginal>> ELSE <<sA, sArquivoOriginal>>
    /\ xpc = "call"
    /\ verticalRows = <<>>
    /\ worksheetNames = <<>>
    /\ IdleButExcel

SpecSheets == InitSheets /\ [][NextExcel]_vars

----------------------------------------------------------------------------
(* Properties of parseCsvRecords *)

\* the lines the parser reads: lines[0] is the header line
Lines == SelectSeq(split(trim(csvString), "\n"), NonBlank)

HeaderLine == Lines[1]

Parsed == pc = "done" /\ Len(headers) >= 3

\* the fields of data line i (2..Len(Lines)), split on the detected delimiter
Fields(i) == split(Lines[i], separator)

HasEnoughFields(i) == Len(Fields(i)) >= Len(headers)

IdentityColumns == {h \in 1..Len(headers) : headers[h] = sNomeColaborador}

\* the row's own identity: present, not empty and not 'N/A'
HasValidIdentity(i) ==
    /\ HasEnoughFields(i)
    /\ IdentityColumns # {}
    /\ \A h \in IdentityColumns : trim(Fields(i)[h]) \notin {<<>>, sNA}

\* the row's identity is absent or 'N/A'
HasNoIdentity(i) ==
    /\ HasEnoughFields(i)
    /\ \A h \in IdentityColumns : trim(Fields(i)[h]) \in {<<>>, sNA}

\* the row carries some data: a cell outside the provenance column that is
\* neither empty nor 'N/A'
HasData(i) ==
    \E h \in 1..Len(headers) :
        /\ ~includes(headers[h], sArquivo)
        /\ trim(Fields(i)[h]) \notin {<<>>, sNA}

\* what a cell is stored as
StoredCell(header, raw) ==
    IF convertValue(header, trim(raw)) = Str(<<>>)
    THEN Str(sNA) ELSE convertValue(header, trim(raw))

\* data line i is in the returned records, with the identity name
RowReturnedAs(i, name) ==
    \E k \in 1..Len(records) :
        /\ sNomeColaborador \in DOMAIN records[k]
        /\ records[k][sNomeColaborador] = Str(name)
        /\ \A h \in 1..Len(headers) :
               headers[h] \notin {sNomeColaborador, sArquivoOriginal}
                   => records[k][headers[h]] = StoredCell(headers[h], Fields(i)[h])

\* the rows before i that carried a valid identity
ValidBefore(i) == {j \in 2..(i - 1) : HasValidIdentity(j)}

LastValidBefore(i) == CHOOSE j \in ValidBefore(i) : \A q \in ValidBefore(i) : q <= j

IdentityOf(j) == trim(Fields(j)[CHOOSE h \in IdentityColumns : TRUE])

\* C1: a data row with enough fields and some data, whose identity is absent
\* or 'N/A' and that no row with a valid identity precedes, is returned with
\* nome_colaborador = 'Desconhecido'.
C1_UnresolvedRowKept ==
    Parsed =>
        \A i \in 2..Len(Lines) :
            (HasNoIdentity(i) /\ HasData(i) /\ ValidBefore(i) = {})
                => RowReturnedAs(i, sDesconhecido)

\* C2: a data row whose identity is absent or 'N/A' gets the identity of the
\* most recent preceding row that carried a valid one, whatever its length.
C2_CarryForward ==
    Parsed =>
        \A i \in 2..Len(Lines) :
            (HasNoIdentity(i) /\ HasData(i) /\ ValidBefore(i) # {})
                => RowReturnedAs(i, IdentityOf(LastValidBefore(i)))

sNome == <<"n", "o", "m", "e">>

\* C3: the scenario text parses to exactly 2 records in row order, the second
\* named 'Ana' by carry-forward, both with the same provenance label.
C3_Scenario ==
    (pc = "done" /\ csvString = ExampleCsv) =>
        /\ Len(records) = 2
        /\ sNome \in DOMAIN records[2]
        /\ records[1][sNome] = Str(vAna)
        /\ records[2][sNome] = Str(vAna)
        /\ records[1][sDataRegistro] # records[2][sDataRegistro]
        /\ records[1][sArquivoOriginal] = records[2][sArquivoOriginal]

\* C4: every returned record has the key arquivo_original, and its value is
\* the filename argument.
C4_Provenance ==
    pc = "done" =>
        \A k \in 1..Len(records) :
            /\ sArquivoOriginal \in DOMAIN records[k]
            /\ records[k][sArquivoOriginal] = Str(filename)

Occurrences(s, c) == Cardinality({i \in 1..Len(s) : s[i] = c})

Detected == pc = "done" /\ separator # ""

\* C5 as stated: the delimiter with more header fields is chosen, and the
\* comma when both yield the same number of fields.
C5_TieFavoursComma ==
    Detected =>
        separator = IF Occurrences(HeaderLine, ";") > Occurrences(HeaderLine, ",")
                    THEN ";" ELSE ","

\* C5 amended: the delimiter with more header fields is chosen; when both
\* yield the same number of fields the semicolon is chosen, and the comma only
\* when neither occurs in the header line.
C5_TieFavoursSemicolon ==
    Detected =>
        separator = IF /\ Occurrences(HeaderLine, ";") >= Occurrences(HeaderLine, ",")
                       /\ Occurrences(HeaderLine, ";") >= 1
                    THEN ";" ELSE ","

\* a header line where both delimiters occur equally often was split on ';'
C5_Witness ==
    /\ Detected
    /\ Occurrences(HeaderLine, ";") = Occurrences(HeaderLine, ",")
    /\ Occurrences(HeaderLine, ";") >= 1
    /\ separator = ";"

OnlyKeyChars(h) == \A i \in 1..Len(h) : h[i] \in Lower \cup Digits \cup {"_"}

NoDoubleUnderscore(h) == \A i \in 1..(Len(h) - 1) : ~(h[i] = "_" /\ h[i + 1] = "_")

NoEdgeUnderscore(h) == h # <<>> => (h[1] # "_" /\ h[Len(h)] # "_")

\* C6 as stated: a normalized header name holds only lowercase letters,
\* digits and underscores, no two consecutive underscores, and neither starts
\* nor ends with an underscore.
C6_NoEdgeUnderscore ==
    pc = "done" =>
        \A i \in 1..Len(headers) :
            /\ OnlyKeyChars(headers[i])
            /\ NoDoubleUnderscore(headers[i])
            /\ NoEdgeUnderscore(headers[i])

\* C6 amended: a normalized header name holds only lowercase letters, digits
\* and underscores and no two consecutive underscores; it may start or end
\* with one underscore.
C6_Normalized ==
    pc = "done" =>
        \A i \in 1..Len(headers) :
            /\ OnlyKeyChars(headers[i])
            /\ NoDoubleUnderscore(headers[i])

\* a header token of mixed case, whitespace and punctuation was normalized to
\* a name that ends with an underscore
C6_Witness ==
    /\ pc = "done"
    /\ \E i \in 1..Len(HeaderLine) : HeaderLine[i] \in Upper
    /\ \E i \in 1..Len(HeaderLine) : HeaderLine[i] = " "
    /\ \E i \in 1..Len(HeaderLine) : HeaderLine[i] = "!"
    /\ \E i \in 1..Len(headers) :
           Len(headers[i]) >= 2 /\ headers[i][Len(headers[i])] = "_"

----------------------------------------------------------------------------
(* Properties of groupKeys *)

Elems(seq) == {seq[i] : i \in 1..Len(seq)}

RECURSIVE TrailingDigits(_)
TrailingDigits(k) ==
    IF k # <<>> /\ IsDigit(k[Len(k)])
    THEN 1 + TrailingDigits(SubSeq(k, 1, Len(k) - 1)) ELSE 0

\* the sequence suffix of a name: _<digits>, _<letter> or <digits> at its end
SuffixLen(k) ==
    IF TrailingDigits(k) >= 1
    THEN IF Len(k) > TrailingDigits(k) /\ k[Len(k) - TrailingDigits(k)] = "_"
         THEN TrailingDigits(k) + 1 ELSE TrailingDigits(k)
    ELSE IF Len(k) >= 2 /\ k[Len(k) - 1] = "_" /\ IsLetter(k[Len(k)])
    THEN 2 ELSE 0

WithoutSuffix(k) == SubSeq(k, 1, Len(k) - SuffixLen(k))

IsName(b) == b # <<>> /\ AllWordChars(b) /\ IsLetter(b[1])

\* the name is b_<digits> for a base name b
IsNumbered(k) ==
    /\ TrailingDigits(k) >= 1
    /\ SuffixLen(k) = TrailingDigits(k) + 1
    /\ IsName(WithoutSuffix(k))

\* C7: in the revisions of leitor.js:352 and leitor.js:870, names b_i and b_j
\* produce the single group name b, and the scenario list groups to
\* [nome_cliente, valor].
C7_NumberedNamesCollapse ==
    (kpc # "call" /\ revision \in {"leitor.js:352", "leitor.js:870"}) =>
        /\ \A i \in 1..Len(keys) :
               IsNumbered(keys[i]) => WithoutSuffix(keys[i]) \in Elems(groupedKeys)
        /\ keys = ExampleKeys => groupedKeys = <<sNomeCliente, sValor>>

NoDuplicates(seq) == \A i, j \in 1..Len(seq) : i # j => seq[i] # seq[j]

IsSorted(seq) == \A i \in 1..(Len(seq) - 1) : ~StrLess(seq[i + 1], seq[i])

\* C8: in every revision the returned list has no duplicate entry and is
\* sorted lexicographically.
C8_DistinctAndSorted ==
    kpc # "call" => NoDuplicates(groupedKeys) /\ IsSorted(groupedKeys)

ReservedNames == {sArquivoOriginal, sResumoExecutivo, sResumoExecutivoMensal}

\* C9: in the revisions of leitor.js:352 and part_003:92, a non-empty name
\* with a sequence suffix is emitted with exactly that suffix removed, or
\* unchanged when nothing would be left, and the empty string is never emitted.
C9_SuffixStripped ==
    (kpc # "call" /\ revision \in {"leitor.js:352", "part_003:92"}) =>
        \A i \in 1..Len(keys) :
            (keys[i] # <<>> /\ keys[i] \notin ReservedNames /\ SuffixLen(keys[i]) > 0)
                => /\ <<>> \notin Elems(groupedKeys)
                   /\ (IF SuffixLen(keys[i]) < Len(keys[i])
                       THEN WithoutSuffix(keys[i]) ELSE keys[i]) \in Elems(groupedKeys)

\* C10 as stated: groupKeys(groupKeys(K)) = groupKeys(K) for every list K.
C10_Idempotent ==
    kpc = "twice" => regroupedKeys = groupedKeys

\* C10 amended: groupKeys(groupKeys(K)) = groupKeys(K) for every list K whose
\* canonical list groupKeys(K) is groupless, that is, none of its names ends
\* in a sequence suffix.
C10_IdempotentOnGroupless ==
    (kpc = "twice" /\ \A i \in 1..Len(groupedKeys) : SuffixLen(groupedKeys[i]) = 0)
        => regroupedKeys = groupedKeys

\* grouping collapsed a list to two or more groupless names, and grouping
\* those again returned them unchanged
C10_Witness ==
    /\ kpc = "twice"
    /\ Len(groupedKeys) >= 2
    /\ groupedKeys # keys
    /\ \A i \in 1..Len(groupedKeys) : SuffixLen(groupedKeys[i]) = 0
    /\ regroupedKeys = groupedKeys

\* C11: in every revision, each reserved name (arquivo_original and the
\* summary keys resumo_executivo and resumo_executivo_mensal) that is in the
\* input of groupKeys is in its output, unchanged.
C11_ReservedPassThrough ==
    kpc # "call" =>
        \A i \in 1..Len(keys) :
            keys[i] \in ReservedNames => keys[i] \in Elems(groupedKeys)

\* a list holding a reserved name next to a name that was grouped, and the
\* reserved name is in the output
C11_Witness ==
    /\ kpc # "call"
    /\ \E i \in 1..Len(keys) :
           keys[i] \in ReservedNames /\ keys[i] \in Elems(groupedKeys)
    /\ \E i \in 1..Len(keys) : keys[i] \notin Elems(groupedKeys)

----------------------------------------------------------------------------
(* Properties of createExcelFile *)

\* the selection createExcelFile reads for document i
SelectionFor(i) ==
    IF excelRevision = "leitor.js:398"
    THEN selectionOf(selectedFieldsMap, allExtractedData[i].arquivo_original)
    ELSE selectedKeys

\* the canonical form of a field name, by the groupKeys of the same revision
Canonical(k) == groupedName(excelRegex(excelRevision), k)

\* C12: for every document and every non-empty selection, the field names
\* createExcelFile keeps for the document are exactly the document's field
\* names whose canonical form under groupKeys is selected or that are
\* selected verbatim.
C12_ReverseMapping ==
    xpc = "done" =>
        \A i \in 1..Len(allExtractedData) :
            SelectionFor(i) # <<>> =>
                Elems(verticalRows[i]) =
                    { k \in Elems(allExtractedData[i].keys) :
                          \/ Canonical(k) \in Elems(SelectionFor(i))
                          \/ k \in Elems(SelectionFor(i)) }

----------------------------------------------------------------------------
(* Properties of aggregatePointData *)

\* the identity a record carries: its name, the sentinel when it has none
Carries(rec) ==
    IF sNomeColaborador \in DOMAIN rec /\ rec[sNomeColaborador].s # <<>>
    THEN rec[sNomeColaborador].s ELSE sDesconhecido

RECURSIVE LeadingDigits(_)
LeadingDigits(t) ==
    IF t # <<>> /\ Head(t) \in Digits THEN 1 + LeadingDigits(Tail(t)) ELSE 0

\* the numeral a text starts with, as <<numerator, denominator>>: an optional
\* "-", digits, and optionally "," or "." and digits; <<0, 1>> without digits
NumeralOfUnsigned(t) ==
    LET n1 == LeadingDigits(t)
        rest == SubSeq(t, n1 + 1, Len(t))
        n2 == IF rest # <<>> /\ Head(rest) \in {",", "."}
              THEN LeadingDigits(Tail(rest)) ELSE 0
    IN  IF n1 + n2 = 0 THEN <<0, 1>>
        ELSE << DigitsValue(SubSeq(t, 1, n1)) * Pow10(n2)
                    + DigitsValue(SubSeq(rest, 2, n2 + 1)),
                Pow10(n2) >>

NumeralOf(t) ==
    IF t # <<>> /\ Head(t) = "-"
    THEN << -NumeralOfUnsigned(Tail(t))[1], NumeralOfUnsigned(Tail(t))[2] >>
    ELSE NumeralOfUnsigned(t)

\* what a field of a record counts for: a number as itself, a text as the
\* numeral it starts with, no field as zero
Amount(rec, field) ==
    IF field \notin DOMAIN rec THEN <<0, 1>>
    ELSE IF rec[field].t = "number" THEN <<rec[field].num, rec[field].den>>
    ELSE NumeralOf(rec[field].s)

\* the sum of a field over the records of list that carry identity id
RECURSIVE SumOf(_, _, _)
SumOf(list, id, field) ==
    IF list = <<>> THEN <<0, 1>>
    ELSE LET rest == SumOf(Tail(list), id, field)
             a == IF Carries(Head(list)) = id
                  THEN Amount(Head(list), field) ELSE <<0, 1>>
         IN  << a[1] * rest[2] + rest[1] * a[2], a[2] * rest[2] >>

\* text is a numeral with exactly two decimals
HasTwoDecimals(text) ==
    LET body == IF text # <<>> /\ Head(text) = "-" THEN Tail(text) ELSE text
    IN  /\ Len(body) >= 4
        /\ body[Len(body) - 2] = "."
        /\ \A i \in 1..Len(body) : i # Len(body) - 2 => body[i] \in Digits

\* the hundredths a two-decimal numeral stands for
HundredthsOf(text) ==
    LET neg == text # <<>> /\ Head(text) = "-"
        body == IF neg THEN Tail(text) ELSE text
        v == DigitsValue(SubSeq(body, 1, Len(body) - 3)) * 100
                 + DigitsValue(SubSeq(body, Len(body) - 1, Len(body)))
    IN  IF neg THEN -v ELSE v

\* text renders the fraction sum with two decimals: no two-decimal numeral is
\* nearer to it
Renders(text, sum) ==
    /\ HasTwoDecimals(text)
    /\ 2 * Abs(100 * sum[1] - HundredthsOf(text) * sum[2]) <= sum[2]

----------------------------------------------------------------------------
(* Properties of app.post('/upload') and callApiWithRetry *)

\* the handler has answered a request that carried files
Answered == upc = "responded" /\ reqFiles # <<>>

\* the entry of the i-th document in the client result list, if it has one
HasEntry(i) ==
    /\ i <= Len(allResultsForClient)
    /\ allResultsForClient[i].arquivo_original = reqFiles[i].originalname

IsPlaceholder(entry) == "erro" \in DOMAIN entry

\* C14: per-document failure isolation.  When the handler has answered, every
\* document of the batch has been processed and has exactly one entry in the
\* client result list, in upload order, and the entry of a document whose
\* upload could not be read is an error placeholder.
C14_FailureIsolation ==
    Answered =>
        /\ Len(allResultsForClient) = Len(reqFiles)
        /\ \A i \in 1..Len(reqFiles) :
               /\ HasEntry(i)
               /\ ~reqFiles[i].exists => IsPlaceholder(allResultsForClient[i])

\* the session stored under the identifier of this request, if any
StoredSession ==
    IF natToString(now) \in DOMAIN sessionData
    THEN sessionData[natToString(now)] ELSE [data |-> <<>>]

\* C15: a batch in which at least one document yielded a record is answered
\* with success and a session holding the records is stored; an answer of
\* 500 without a session means that no document yielded a record.
C15_FailsOnlyWhenEmpty ==
    Answered =>
        IF allResultsForExcel # <<>>
        THEN httpStatus = 200 /\ StoredSession.data = allResultsForExcel
        ELSE httpStatus = 500 /\ sessionData = <<>>

\* the loop has just finished the document whose call returned a payload
Processed == rpc = "idle" /\ outcome = "payload"

LastEntry == allResultsForClient[Len(allResultsForClient)]

\* C16: the fenced JSON array of the scenario, [{"nome":"Bob",
\* "total_horas_trabalhadas":8},{"resumo_executivo_mensal":"ok"}], is parsed
\* into exactly one daily record: the document is reported with one
\* registered day and the record is added to the records of the batch.
C16_FencedArrayScenario ==
    (Processed /\ response = FencedArray) =>
        /\ ~IsPlaceholder(LastEntry)
        /\ LastEntry.total_dias_registrados = 1
        /\ allResultsForExcel # <<>>

\* the text has a trailing summary block and the block is not JSON
HasMalformedSummary(text) ==
    /\ splitResponse(trim(text)).jsonPart # <<>>
    /\ ~jsonParses(splitResponse(trim(text)).jsonPart)

\* the records of the table part of the text
TableRecords(text, file) ==
    parseCsvRecords(splitResponse(trim(text)).csvPart, file).records

\* the last n elements of a sequence
LastN(seq, n) == SubSeq(seq, Len(seq) - n + 1, Len(seq))

\* C18: a trailing summary block that is not JSON is not fatal.  The
\* document is reported with the records of its table part, which are added
\* to the records of the batch, and it is reported as failed only when the
\* table part has no record.
C18_MalformedSummaryNonFatal ==
    (Processed /\ HasMalformedSummary(response)) =>
        IF TableRecords(response, LastEntry.arquivo_original) = <<>>
        THEN IsPlaceholder(LastEntry) /\ LastEntry.erro = "noRecords"
        ELSE /\ ~IsPlaceholder(LastEntry)
             /\ LastEntry.total_dias_registrados
                    = Len(TableRecords(response, LastEntry.arquivo_original))
             /\ Len(allResultsForExcel)
                    >= Len(TableRecords(response, LastEntry.arquivo_original))
             /\ LastN(allResultsForExcel,
                      Len(TableRecords(response, LastEntry.arquivo_original)))
                    = TableRecords(response, LastEntry.arquivo_original)

C18_Witness ==
    /\ Processed
    /\ HasMalformedSummary(response)
    /\ ~IsPlaceholder(LastEntry)
    /\ LastEntry.total_dias_registrados = 1
    /\ Len(allResultsForClient) = 2

\* a call of callApiWithRetry is under way
Calling == rpc \in {"loop", "awaiting", "waiting"}

\* C19: the documents of a batch are processed one after the other in upload
\* order.  At most one model call is in flight, and while the call of a
\* document is under way (retries included) the loop waits at that document
\* and every earlier document, and no later one, has its entry.
C19_Sequential ==
    /\ inFlight <= 1
    /\ Calling =>
           /\ upc = "awaiting"
           /\ Len(allResultsForClient) = fileIndex - 1
    /\ \A i \in 1..Len(allResultsForClient) : HasEntry(i)

C19_Witness ==
    /\ inFlight = 1
    /\ fileIndex = 2
    /\ attempt >= 1
    /\ Len(allResultsForClient) = 1

----------------------------------------------------------------------------
(* Short rows in parseCsvRecords *)

\* the header line split on the detected delimiter
RawHeaderFields == split(HeaderLine, separator)

\* the data lines with fewer than n fields
ShorterThan(n) == {i \in 2..Len(Lines) : Len(Fields(i)) < n}

\* the lines without the data lines in the set rows, joined into a text again
RECURSIVE LinesWithout(_, _)
LinesWithout(rows, i) ==
    IF i > Len(Lines) THEN <<>>
    ELSE (IF i \in rows THEN <<>> ELSE <<Lines[i]>>) \o LinesWithout(rows, i + 1)

TextWithout(rows) == Join(LinesWithout(rows, 1), "\n")

\* no data line in the set rows yields a record: the parser returns what it
\* returns for the text without these lines
YieldNothing(rows) ==
    records = parseCsvRecords(TextWithout(rows), filename).records

\* C17 as stated: every data row with fewer fields than the header line,
\* both split on the detected delimiter, is skipped and yields no record.
C17_ShorterThanHeaderLine ==
    Parsed => YieldNothing(ShorterThan(Len(RawHeaderFields)))

\* C17: every data row with fewer fields than the cleaned header list (the
\* header cells that are not empty after normalisation) is skipped and
\* yields no record.
C17_ShorterThanHeaders ==
    Parsed => YieldNothing(ShorterThan(Len(headers)))

C17_Witness ==
    /\ Parsed
    /\ ShorterThan(Len(headers)) # {}
    /\ records # <<>>
    /\ Len(RawHeaderFields) = Len(headers)

----------------------------------------------------------------------------
(* Cleanup of the uploaded files *)

\* the number of times the deletion of the i-th temporary file was requested
UnlinkRequests(i) == Cardinality({k \in 1..Len(unlinked) : unlinked[k] = i})

\* C30: when the handler of an upload with files has answered, the deletion
\* of the temporary file has been requested exactly once for each file of
\* the batch.
C30_EveryFileUnlinkedOnce ==
    Answered => \A i \in 1..Len(reqFiles) : UnlinkRequests(i) = 1

----------------------------------------------------------------------------
(* The provenance field in the exported field lists *)

Count(seq, x) == Cardinality({k \in 1..Len(seq) : seq[k] = x})

\* C23: for every selection, the field list createExcelFile hands to the
\* worksheet of each document holds arquivo_original exactly once.
C23_ProvenanceExactlyOnce ==
    xpc = "done" =>
        \A i \in 1..Len(allExtractedData) :
            Count(verticalRows[i], sArquivoOriginal) = 1

----------------------------------------------------------------------------
(* The worksheet names *)

\* C26: the worksheet names createExcelFile chooses within one workbook are
\* pairwise distinct and at most 31 characters long.
C26_DistinctShortNames ==
    xpc = "done" =>
        /\ \A i, j \in 1..Len(worksheetNames) :
               i # j => worksheetNames[i] # worksheetNames[j]
        /\ \A i \in 1..Len(worksheetNames) :
               Len(worksheetNames[i]) <= 31


----------------------------------------------------------------------------
(* The session store under concurrent requests.  src/leitor.js:1026-1220    *)
(* keeps the session when the upload has been processed;                    *)
(* src/unnamed/part_000:159-315 creates it when the upload is accepted and  *)
(* processes the files in the background.  A handler runs without           *)
(* interruption between two awaits, so each action is one such stretch.     *)
(* A file is modelled by whether it can be read, a document by the pair of  *)
(* its upload and its position, a session object by the upload that         *)
(* created it: sessionData maps an id to that reference.                    *)

ServerRevisions == {"leitor.js:1026", "part_000:236"}

background(rev) == rev = "part_000:236"

\* two requests to POST /upload and two to the download route, which can
\* overlap in every way
UploadIds == {1, 2}

DownloadIds == {1, 2}

\* req.files of a concurrent upload
Batches == SeqsUpTo(BOOLEAN, 0, MaxBatch)

\* the ids Date.now().toString() can give
SessionIds == {natToString(t) : t \in 1..MaxTime}

NoUpload ==
    [pc |-> "none", files |-> <<>>, fileIndex |-> 0, allResultsForClient |-> <<>>,
     allResultsForExcel |-> <<>>, unlinked |-> <<>>, sessionId |-> <<>>,
     httpStatus |-> 0]

NoDownload == [pc |-> "none", sessionId |-> <<>>, session |-> 0, httpStatus |-> 0]

\* delete obj[k]
remove(obj, k) == [x \in (DOMAIN obj) \ {k} |-> obj[x]]

NewSessionConcluded ==
    [status |-> "CONCLUIDO", data |-> <<>>, clientResults |-> <<>>,
     error |-> "null"]

\* part_000:243-248
NewSession ==
    [status |-> "PROCESSANDO", data |-> <<>>, clientResults |-> <<>>,
     error |-> "null"]

\* part_000:220-222
backgroundFinished(session, h) ==
    [session EXCEPT !.data = h.allResultsForExcel,
                    !.clientResults = h.allResultsForClient,
                    !.status = "CONCLUIDO"]

backgroundFatalUnrecorded(session) == session

\* part_000:225-228
backgroundFatal(session) ==
    [session EXCEPT !.status = "ERRO", !.error = "ENOENT"]

\* the head of the for loop and fileToGenerativePart, which throws for a file
\* that cannot be read (leitor.js:1059-1062, part_000:180-183)
atFile(h) ==
    IF h.fileIndex > Len(h.files) THEN [h EXCEPT !.pc = "finished"]
    ELSE IF h.files[h.fileIndex] THEN [h EXCEPT !.pc = "calling"]
    ELSE [h EXCEPT !.pc = "fatal"]

\* the finally of the loop body and the step to the next file
\* (leitor.js:1139-1142, part_000:215-218)
nextFile(h) ==
    atFile([h EXCEPT !.unlinked = Append(@, h.fileIndex), !.fileIndex = @ + 1])

ended(h, status) == [h EXCEPT !.pc = "ended", !.httpStatus = status]

\* leitor.js:1145-1172: what follows the loop, and the outer catch
leaveForeground(u, h, t, sd, so) ==
    IF h.pc = "fatal" \/ (h.pc = "finished" /\ h.allResultsForExcel = <<>>)
    THEN [request |-> ended(h, 500), sessionData |-> sd, sessionObjects |-> so]
    ELSE IF h.pc = "finished"
    THEN [request |-> [ended(h, 200) EXCEPT !.sessionId = natToString(t)],
          sessionData |-> put(sd, natToString(t), u),
          sessionObjects |-> put(so, u, [data |-> h.allResultsForExcel])]
    ELSE [request |-> h, sessionData |-> sd, sessionObjects |-> so]

\* part_000:220-231: what follows the loop, and the outer catch
leaveBackground(u, h, sd, so) ==
    IF h.pc = "finished"
    THEN [request |-> [h EXCEPT !.pc = "ended"], sessionData |-> sd,
          sessionObjects |-> [so EXCEPT ![u] = backgroundFinished(@, h)]]
    ELSE IF h.pc = "fatal"
    THEN [request |-> [h EXCEPT !.pc = "ended"], sessionData |-> sd,
          sessionObjects |-> [so EXCEPT ![u] = backgroundFatal(@)]]
    ELSE [request |-> h, sessionData |-> sd, sessionObjects |-> so]

leave(rev, u, h, t, sd, so) ==
    IF background(rev) THEN leaveBackground(u, h, sd, so)
    ELSE leaveForeground(u, h, t, sd, so)

\* leitor.js:1026-1062 and part_000:236-258 with part_000:159-183: the
\* handler up to its first await
accepted(rev, u, files, t, sd, so) ==
    IF files = <<>>
    THEN [request |-> ended(NoUpload, 400), sessionData |-> sd,
          sessionObjects |-> so]
    ELSE IF background(rev)
    THEN leaveBackground(u,
             atFile([NoUpload EXCEPT !.files = files, !.fileIndex = 1,
                                     !.sessionId = natToString(t),
                                     !.httpStatus = 202]),
             put(sd, natToString(t), u), put(so, u, NewSession))
    ELSE leaveForeground(u,
             atFile([NoUpload EXCEPT !.files = files, !.fileIndex = 1]),
             t, sd, so)

\* the entries the loop body pushes once callApiWithRetry settled
\* (leitor.js:1071-1138, part_000:194-214)
pushed(u, h, ok) ==
    [h EXCEPT !.allResultsForClient =
                  Append(@, [arquivo_original |-> <<u, h.fileIndex>>, erro |-> ~ok]),
              !.allResultsForExcel =
                  IF ok THEN Append(@, <<u, h.fileIndex>>) ELSE @]

\* part_000:210: the await of delay(3000) after a document that was read
delayed(rev, ok) == background(rev) /\ ok

downloadCheckAnyStatus(rev, present, status, selected) ==
    IF ~present THEN IF background(rev) THEN 409 ELSE 404
    ELSE IF background(rev) /\ ~selected THEN 400
    ELSE 0

\* the test at the head of the download route: 0 when the request goes on,
\* else the status of the answer (leitor.js:1181-1183, part_000:287-293)
downloadCheck(rev, present, status, selected) ==
    IF background(rev)
    THEN IF ~present \/ status # "CONCLUIDO" THEN 409
         ELSE IF ~selected THEN 400
         ELSE 0
    ELSE IF ~present THEN 404 ELSE 0

statusOf(rev, id, sd, so) ==
    IF background(rev) /\ id \in DOMAIN sd THEN so[sd[id]].status ELSE "none"

afterFailedGenerationEverywhere(rev, sd, id) == remove(sd, id)

\* the catch of the download route (leitor.js:1211-1219, part_000:309-312)
afterFailedGeneration(rev, sd, id) ==
    IF background(rev) THEN sd ELSE remove(sd, id)

\* part_000:262-277
statusAnswer(id, sd, so) ==
    IF id \in DOMAIN sd
    THEN [sessionId |-> id, httpStatus |-> 200, status |-> so[sd[id]].status,
          results |-> so[sd[id]].clientResults, data |-> so[sd[id]].data,
          error |-> so[sd[id]].error]
    ELSE [sessionId |-> id, httpStatus |-> 404, status |-> "EXPIRADA",
          results |-> <<>>, data |-> <<>>, error |-> "null"]

NoReply ==
    [sessionId |-> <<>>, httpStatus |-> 0, status |-> "none", results |-> <<>>,
     data |-> <<>>, error |-> "null"]

\* the server after start: const sessionData = {} and no request yet
NoRequests ==
    /\ uploadRequests = [u \in UploadIds |-> NoUpload]
    /\ downloadRequests = [d \in DownloadIds |-> NoDownload]
    /\ sessionObjects = <<>>
    /\ statusReply = NoReply
    /\ now = 1
    /\ sessionData = <<>>
    /\ IdleButRequests

InitSessions ==
    /\ serverRevision \in ServerRevisions
    /\ NoRequests

\* a request to POST /upload arrives and runs up to its first await
UploadArrives(u) ==
    /\ uploadRequests[u].pc = "none"
    /\ \E files \in Batches :
       \E r \in {accepted(serverRevision, u, files, now, sessionData,
                          sessionObjects)} :
           /\ uploadRequests' = [uploadRequests EXCEPT ![u] = r.request]
           /\ sessionData' = r.sessionData
           /\ sessionObjects' = r.sessionObjects
    /\ UNCHANGED <<serverRevision, downloadRequests, statusReply, now>>
    /\ UNCHANGED allButRequests

\* callApiWithRetry settles and the handler runs up to its next await
CallSettles(u) ==
    /\ uploadRequests[u].pc = "calling"
    /\ \E ok \in BOOLEAN :
           IF delayed(serverRevision, ok)
           THEN /\ uploadRequests' =
                       [uploadRequests EXCEPT
                            ![u] = [pushed(u, @, ok) EXCEPT !.pc = "delaying"]]
                /\ UNCHANGED <<sessionData, sessionObjects>>
           ELSE \E r \in {leave(serverRevision, u,
                                nextFile(pushed(u, uploadRequests[u], ok)),
                                now, sessionData, sessionObjects)} :
                    /\ uploadRequests' = [uploadRequests EXCEPT ![u] = r.request]
                    /\ sessionData' = r.sessionData
                    /\ sessionObjects' = r.sessionObjects
    /\ UNCHANGED <<serverRevision, downloadRequests, statusReply, now>>
    /\ UNCHANGED allButRequests

\* part_000:210: the timer of delay(3000) fires
DelayElapses(u) ==
    /\ uploadRequests[u].pc = "delaying"
    /\ \E r \in {leave(serverRevision, u, nextFile(uploadRequests[u]), now,
                       sessionData, sessionObjects)} :
           /\ uploadRequests' = [uploadRequests EXCEPT ![u] = r.request]
           /\ sessionData' = r.sessionData
           /\ sessionObjects' = r.sessionObjects
    /\ UNCHANGED <<serverRevision, downloadRequests, statusReply, now>>
    /\ UNCHANGED allButRequests

\* a millisecond passes
ClockTicks ==
    /\ now < MaxTime
    /\ now' = now + 1
    /\ UNCHANGED <<sessionData, requestVars>>
    /\ UNCHANGED allButRequests

\* part_000:262-277: GET /status/:sessionId
StatusRequest(id) ==
    /\ background(serverRevision)
    /\ statusReply' = statusAnswer(id, sessionData, sessionObjects)
    /\ UNCHANGED <<serverRevision, uploadRequests, downloadRequests,
                   sessionObjects, now, sessionData>>
    /\ UNCHANGED allButRequests

\* leitor.js:1177-1189, part_000:283-297: a download request arrives and runs
\* up to the await of createExcelFile
DownloadArrives(d) ==
    /\ downloadRequests[d].pc = "none"
    /\ \E id \in SessionIds, selected \in BOOLEAN :
       \E code \in {downloadCheck(serverRevision, id \in DOMAIN sessionData,
                                  statusOf(serverRevision, id, sessionData,
                                           sessionObjects),
                                  selected)} :
           downloadRequests' =
               [downloadRequests EXCEPT
                    ![d] = IF code = 0
                           THEN [pc |-> "generating", sessionId |-> id,
                                 session |-> sessionData[id], httpStatus |-> 0]
                           ELSE [pc |-> "ended", sessionId |-> id,
                                 session |-> 0, httpStatus |-> code]]
    /\ UNCHANGED <<serverRevision, uploadRequests, sessionObjects, statusReply,
                   now, sessionData>>
    /\ UNCHANGED allButRequests

\* leitor.js:1189-1219, part_000:297-312: createExcelFile settles; res.download
\* starts, or the catch answers 500
GenerationEnds(d) ==
    /\ downloadRequests[d].pc = "generating"
    /\ \E created \in BOOLEAN :
           IF created
           THEN /\ downloadRequests' =
                       [downloadRequests EXCEPT ![d].pc = "sending"]
                /\ UNCHANGED sessionData
           ELSE /\ downloadRequests' =
                       [downloadRequests EXCEPT ![d].pc = "ended",
                                                ![d].httpStatus = 500]
                /\ sessionData' =
                       afterFailedGeneration(serverRevision, sessionData,
                                             downloadRequests[d].sessionId)
    /\ UNCHANGED <<serverRevision, uploadRequests, sessionObjects, statusReply,
                   now>>
    /\ UNCHANGED allButRequests

\* leitor.js:1198-1209, part_000:299-307: the callback of res.download
SendEnds(d) ==
    /\ downloadRequests[d].pc = "sending"
    /\ downloadRequests' =
           [downloadRequests EXCEPT ![d].pc = "ended", ![d].httpStatus = 200]
    /\ sessionData' = remove(sessionData, downloadRequests[d].sessionId)
    /\ UNCHANGED <<serverRevision, uploadRequests, sessionObjects, statusReply,
                   now>>
    /\ UNCHANGED allButRequests

NextSessions ==
    \/ \E u \in UploadIds : UploadArrives(u)
    \/ \E u \in UploadIds : CallSettles(u)
    \/ \E u \in UploadIds : DelayElapses(u)
    \/ ClockTicks
    \/ \E d \in DownloadIds : DownloadArrives(d)
    \/ \E d \in DownloadIds : GenerationEnds(d)
    \/ \E d \in DownloadIds : SendEnds(d)

SpecSessions == InitSessions /\ [][NextSessions]_vars


\* the background revision alone, with its status route
InitBackground ==
    /\ serverRevision = "part_000:236"
    /\ NoRequests

NextBackground ==
    \/ \E u \in UploadIds : UploadArrives(u)
    \/ \E u \in UploadIds : CallSettles(u)
    \/ \E u \in UploadIds : DelayElapses(u)
    \/ ClockTicks
    \/ \E id \in SessionIds : StatusRequest(id)

SpecBackground == InitBackground /\ [][NextBackground]_vars

\* the uploads of the background revision and their processing
NextProcessing ==
    \/ \E u \in UploadIds : UploadArrives(u)
    \/ \E u \in UploadIds : CallSettles(u)
    \/ \E u \in UploadIds : DelayElapses(u)
    \/ ClockTicks

\* a call of the model returns or fails, and a timer fires
FairBackground ==
    /\ InitBackground
    /\ [][NextProcessing]_vars
    /\ \A u \in UploadIds : WF_vars(CallSettles(u)) /\ WF_vars(DelayElapses(u))

----------------------------------------------------------------------------
(* Properties of the session store *)

\* the documents a handler has dealt with so far
ProcessedSoFar(u) == uploadRequests[u].allResultsForClient

\* C24: while the status of a session is PROCESSANDO, the answer of
\* GET /status/:sessionId holds the results of the documents processed so far
C24_PartialResults ==
    [][(statusReply' # statusReply /\ statusReply'.status = "PROCESSANDO")
           => statusReply'.results =
                  ProcessedSoFar(sessionData[statusReply'.sessionId])]_vars

Settled(u) ==
    /\ u \in DOMAIN sessionObjects
    /\ sessionObjects[u].status \in {"CONCLUIDO", "ERRO"}

\* C29: every session of the background revision leaves PROCESSANDO for
\* CONCLUIDO or ERRO, and its status never changes after that
C29_LeavesProcessing ==
    /\ \A u \in UploadIds : (u \in DOMAIN sessionObjects) ~> Settled(u)
    /\ [][\A u \in UploadIds :
              Settled(u) => /\ u \in DOMAIN sessionObjects'
                            /\ sessionObjects'[u].status = sessionObjects[u].status]_vars

\* two sessions have settled, one of them after a document that was read and
\* the delay that follows it, the other on a file that could not be read
C29_Witness ==
    \E u, v \in UploadIds :
        /\ Settled(u) /\ sessionObjects[u].status = "CONCLUIDO"
        /\ sessionObjects[u].data # <<>>
        /\ Settled(v) /\ sessionObjects[v].status = "ERRO"


\* every file of the batch of upload u has been dealt with
AllProcessed(u) == Len(ProcessedSoFar(u)) = Len(uploadRequests[u].files)

\* C21 as stated: a session id is present in sessionData only if every
\* document of its batch has been processed
C21_PresentOnlyWhenProcessed ==
    \A id \in DOMAIN sessionData : AllProcessed(sessionData[id])

\* C21, amended: in leitor.js a session id is present only if every document
\* of its batch has been processed; in the background revision the entry
\* exists from the acceptance of the upload, it holds no data and no results
\* while its status is PROCESSANDO, and its status is CONCLUIDO only if every
\* document of its batch has been processed
C21_CompleteOnlyWhenProcessed ==
    \A id \in DOMAIN sessionData :
        IF background(serverRevision)
        THEN /\ sessionObjects[sessionData[id]].status = "CONCLUIDO"
                    => AllProcessed(sessionData[id])
             /\ sessionObjects[sessionData[id]].status = "PROCESSANDO"
                    => /\ sessionObjects[sessionData[id]].data = <<>>
                       /\ sessionObjects[sessionData[id]].clientResults = <<>>
        ELSE AllProcessed(sessionData[id])

\* a session of two documents is CONCLUIDO while another one is PROCESSANDO
\* with one of its two documents dealt with
C21_Witness ==
    \E id, other \in DOMAIN sessionData :
        /\ background(serverRevision)
        /\ sessionObjects[sessionData[id]].status = "CONCLUIDO"
        /\ Len(uploadRequests[sessionData[id]].files) = 2
        /\ sessionObjects[sessionData[other]].status = "PROCESSANDO"
        /\ Len(ProcessedSoFar(sessionData[other])) = 1
        /\ Len(uploadRequests[sessionData[other]].files) = 2

\* request d ends in this step, having been at position p
Ends(d, p) ==
    /\ downloadRequests[d].pc = p
    /\ downloadRequests'[d].pc = "ended"

\* C22 as stated: a session id leaves sessionData only in the callback of
\* res.download of a request for that id, so not when createExcelFile failed
C22_RemovedOnlyWhenServed ==
    [][\A id \in DOMAIN sessionData :
           id \notin DOMAIN sessionData'
               => \E d \in DownloadIds :
                      /\ downloadRequests[d].sessionId = id
                      /\ Ends(d, "sending")]_vars

\* C22, amended: a session id leaves sessionData only at the end of a
\* download request for that id that found the session: in the callback of
\* res.download or, in leitor.js only, in the catch after createExcelFile
\* failed; no other step removes an id
C22_RemovedOnlyByItsDownload ==
    [][\A id \in DOMAIN sessionData :
           id \notin DOMAIN sessionData'
               => \E d \in DownloadIds :
                      /\ downloadRequests[d].sessionId = id
                      /\ \/ Ends(d, "sending")
                         \/ /\ Ends(d, "generating")
                            /\ ~background(serverRevision)]_vars

\* leitor.js: the only download request so far ended with 500 and the session
\* it asked for is gone, while the other session is still there
C22_Witness ==
    \E d, e \in DownloadIds :
        /\ ~background(serverRevision)
        /\ downloadRequests[d].pc = "ended"
        /\ downloadRequests[d].httpStatus = 500
        /\ downloadRequests[d].sessionId \notin DOMAIN sessionData
        /\ downloadRequests[e].pc = "none"
        /\ sessionData # <<>>

\* the session that request d asks for exists with status CONCLUIDO
Concluded(id) ==
    /\ id \in DOMAIN sessionData
    /\ sessionObjects[sessionData[id]].status = "CONCLUIDO"

\* C25: in the background revision a download request goes on to
\* createExcelFile only for a session that exists with status CONCLUIDO; for
\* any other it ends with an error answer and sessionData is unchanged
C25_OnlyConcluded ==
    [][\A d \in DownloadIds :
           (/\ background(serverRevision)
            /\ downloadRequests[d].pc = "none"
            /\ downloadRequests'[d].pc # "none"
            /\ ~Concluded(downloadRequests'[d].sessionId))
               => /\ downloadRequests'[d].pc = "ended"
                  /\ downloadRequests'[d].httpStatus >= 400
                  /\ sessionData' = sessionData
                  /\ sessionObjects' = sessionObjects]_vars

\* one request was refused for a session in status ERRO, which is still in
\* sessionData, and another one is generating the file of a session
C25_Witness ==
    \E d, e \in DownloadIds :
        /\ background(serverRevision)
        /\ downloadRequests[d].pc = "ended"
        /\ downloadRequests[d].httpStatus = 409
        /\ downloadRequests[d].sessionId \in DOMAIN sessionData
        /\ sessionObjects[sessionData[downloadRequests[d].sessionId]].status
               = "ERRO"
        /\ downloadRequests[e].pc = "generating"

\* C27: two uploads never get the same session id, and the entry of the id
\* of an upload is the session of that upload
C27_SessionIsolation ==
    /\ \A u, v \in UploadIds :
           (u # v /\ uploadRequests[u].sessionId # <<>>)
               => uploadRequests[u].sessionId # uploadRequests[v].sessionId
    /\ \A u \in UploadIds :
           uploadRequests[u].sessionId \in DOMAIN sessionData
               => sessionData[uploadRequests[u].sessionId] = u

\* request d has passed the test of the route and has not ended
Exporting(d) == downloadRequests[d].pc \in {"generating", "sending"}

\* C28: of the download requests for one session id that overlap, at most
\* one passes the test of the route and generates the file
C28_AtMostOneExport ==
    \A d, e \in DownloadIds :
        (d # e /\ Exporting(d) /\ Exporting(e))
            => downloadRequests[d].sessionId # downloadRequests[e].sessionId

====
